---- MODULE Spec2Model ----
(***************************************************************************)
(* A model of h89trans.py (src/h89trans.py): the host side of the H89      *)
(* loader protocol.  The program is one sequential session (class          *)
(* H89Trans) driven from the menu loop of main(); the environment is the   *)
(* serial channel (pyserial) and the files of the PC.                      *)
(*                                                                         *)
(* Every channel operation (ser.read, ser.write) is one step of the model, *)
(* so that the remote's bytes and a loss of the connection interleave with *)
(* the program at exactly the places where the program can observe them.   *)
(*                                                                         *)
(* The channel: ser.read(1) returns the oldest buffered inbound byte, or   *)
(* b'' when the read timeout (initialize_port: timeout=1) ends with        *)
(* nothing buffered; ser.read and ser.write raise serial.SerialException,  *)
(* which pyserial declares as a subclass of IOError (= OSError), when the  *)
(* connection is lost.                                                     *)
(***************************************************************************)
EXTENDS Integers, Sequences, FiniteSets, TLC

(***************************************************************************)
(* Bounds.  The geometry of the source (num_tracks = 40, track_size =      *)
(* 0x0A00) is scaled down; the loops are the loops of the source.          *)
(***************************************************************************)
num_tracks == 2
track_size == 1
\* Capacity of the inbound buffer where the H89 sends at any time.
MaxIn == 2
\* The loader files are scaled down like the image: LDR_SIZE (818) bytes of
\* H89LDR2.BIN and the 1024 bytes of ABSLDR.BIN.
ldr_size == 3
absldr_size == 2

\* The two passes of get_disk_volume: for _ in range(2).
VOL_ROUNDS == 2

\* ord() of the command letters.
ORD == [A |-> 65, B |-> 66, C |-> 67, F |-> 70, I |-> 73, L |-> 76, R |-> 82, S |-> 83,
        T |-> 84, V |-> 86, W |-> 87, r |-> 114, v |-> 118,
        zero |-> 48, one |-> 49, two |-> 50, three |-> 51, four |-> 52,
        five |-> 53]

\* ord(b'?'), the answer of a loader that is already running.
QUESTION == 63

\* self.ser.write(b'\x00' * 40)
PAD_LEN == 40

\* Offset of the volume byte in an image (0x900, inside track 0), scaled with
\* the track: the last byte of track 0.
VOL_OFFSET == track_size - 1

(***************************************************************************)
(* The files of the PC before the session.  "img" is a whole image whose   *)
(* byte k is k, but for the volume byte; "short" lacks its last byte;      *)
(* "abs" is an ABS file (8-byte header, 2 bytes of program) and "notabs"   *)
(* the same with a wrong magic; "new" does not exist; "empty" exists with  *)
(* no data.                                                                *)
(***************************************************************************)
ImageLen == num_tracks * track_size
ImageVol == ORD.V
ImageData == [k \in 1..ImageLen |-> IF k = VOL_OFFSET + 1 THEN ImageVol ELSE k]
AbsData == <<255, 0, 0, 20, 0, 1, 0, 20, 1, 2>>
NotAbsData == <<0, 0, 0, 20, 0, 1, 0, 20, 1, 2>>
FileNames == {"img", "short", "abs", "notabs", "new", "empty"}
InitialPresent == {"img", "short", "abs", "notabs", "empty"}
InitialDisk == [f \in FileNames |->
                  CASE f = "img" -> ImageData
                    [] f = "short" -> SubSeq(ImageData, 1, ImageLen - 1)
                    [] f = "abs" -> AbsData
                    [] f = "notabs" -> NotAbsData
                    [] OTHER -> << >>]

VARIABLES
    h,          \* the H89Trans object: the fields of __init__
    fpos,       \* position of the open file object h.fp
    present,    \* the files that exist on the PC
    disk,       \* their contents
    inbuf,      \* bytes received from the H89 and not yet read
    connected,  \* FALSE: the serial connection is lost
    pc,         \* the statement the program is at
    stack,      \* return labels of the calls in progress
    loc,        \* the local variables of the running command
    log         \* what the running command did on the channel, in order

vars == <<h, fpos, present, disk, inbuf, connected, pc, stack, loc, log>>

(***************************************************************************)
(* Helpers                                                                 *)
(***************************************************************************)
\* bytes.upper(): ASCII a-z to A-Z, every other byte unchanged.
Upper(b) == IF b \in 97..122 THEN b - 32 ELSE b

\* An entry of the log: a kind and the bytes (or numbers) it carries.
Ev(k, d) == <<k, d>>

\* Locals of a command that has not started.
NoLocals == [op |-> "", target |-> 0, sv_vol |-> 0, rnd |-> 0, track_vol |-> 0,
             track |-> 0, i |-> 0, buffer |-> << >>, retval |-> FALSE]

\* file.write(data) at position pos of a file holding old.
WriteAt(old, pos, data) ==
    SubSeq(old, 1, pos) \o data \o SubSeq(old, pos + Len(data) + 1, Len(old))

\* ser.read(1): the byte read (as bytes of length 0 or 1).
ReadByte == IF inbuf = << >> THEN << >> ELSE <<Head(inbuf)>>
AfterRead == IF inbuf = << >> THEN inbuf ELSE Tail(inbuf)

(***************************************************************************)
(* __init__ and select_port                                                *)
(***************************************************************************)
\* self.default_baud
default_baud == 9600

\* baudrate is self.ser.baudrate, which select_port sets to default_baud;
\* fp_mode is the mode of the file object self.fp ('rb' or 'wb'), or
\* "closed" after the close of main's finally.
InitSession == [interleave_factor |-> 1, vol |-> 0, override |-> FALSE,
                char_of_wait |-> << >>, read_errors |-> 0,
                fp |-> "None", fp_dir |-> "None", vol_set |-> FALSE,
                baudrate |-> default_baud, fp_mode |-> "None"]

Init ==
    /\ h = InitSession
    /\ fpos = 0
    /\ present = InitialPresent
    /\ disk = InitialDisk
    /\ inbuf = << >>
    /\ connected = TRUE
    /\ pc = "menu"
    /\ stack = << >>
    /\ loc = NoLocals
    /\ log = << >>

(***************************************************************************)
(* Exceptions.  A SerialException raised by ser.read or ser.write outside  *)
(* wait_char unwinds to the nearest handler that catches it:               *)
(*   - send_abs, write_loader, write_absloader: "except OSError" prints    *)
(*     and returns to the menu;                                            *)
(*   - the try blocks of read_disk and write_disk: "except OSError" runs   *)
(*     print(f"... '{filename}'?") with no name filename in scope, so a    *)
(*     NameError leaves main through its finally clause;                   *)
(*   - anywhere else: "except serial.SerialException" of main.             *)
(***************************************************************************)
InTry ==
    \/ loc.op = "W"
    \/ loc.op = "R" /\ pc \in {"rd_begin", "rd_track", "rd_data"}

Handler ==
    IF loc.op \in {"A", "L", "Q", "F"} THEN "done"
    ELSE IF InTry THEN "finally"
    ELSE "except_serial"

Throw ==
    /\ pc' = Handler
    /\ stack' = << >>
    /\ log' = Append(log, Ev("SerialException", << >>))

Raise ==
    /\ Throw
    /\ UNCHANGED <<h, fpos, present, disk, inbuf, connected, loc>>

\* return: back to the caller.
Return ==
    /\ pc' = Head(stack)
    /\ stack' = Tail(stack)

\* A call: the callee's first statement, with the return label pushed.
Call(label, ret) ==
    /\ pc' = label
    /\ stack' = <<ret>> \o stack

(***************************************************************************)
(* wait_char                                                               *)
(***************************************************************************)
\* Variant: the comparison without the case fold of the byte.
WaitMatches_Exact(raw, target) == raw = target

\* if raw.upper() == target, with target = target.upper()
WaitMatches(raw, target) == Upper(raw) = target

\* Variant: the folded byte is kept.
StoredAck_Folded(raw) == <<Upper(raw[1])>>

\* self.char_of_wait = raw
StoredAck(raw) == raw

wait_char ==
    /\ pc = "wait_char"
    /\ IF ~connected
       THEN \* except serial.SerialException: print(...); return
            /\ Return
            /\ log' = Append(log, Ev("lost", << >>))
            /\ UNCHANGED <<h, inbuf>>
       ELSE IF ReadByte = << >>
       THEN \* if not raw: continue
            UNCHANGED <<pc, stack, log, h, inbuf>>
       ELSE /\ inbuf' = AfterRead
            /\ h' = [h EXCEPT !.char_of_wait = StoredAck(ReadByte)]
            /\ IF WaitMatches(Head(inbuf), loc.target)
               THEN /\ Return
                    /\ log' = Append(log, Ev("ack", ReadByte))
               ELSE UNCHANGED <<pc, stack, log>>
    /\ UNCHANGED <<fpos, present, disk, connected, loc>>

(***************************************************************************)
(* is_h89ldr2_alive                                                        *)
(***************************************************************************)
\* Variant: the probe succeeds whatever the read delivered.
AliveResult_Always(ch) == TRUE

\* Variant: only the echo of the probe counts as an answer.
AliveResult_OnlyEcho(ch) == ch = <<ORD.A>>

\* if not ch: return False  else: return True
AliveResult(ch) == ch # << >>

alive_write ==
    /\ pc = "alive_write"
    /\ IF connected
       THEN /\ log' = Append(log, Ev("write", <<ORD.A>>))
            /\ pc' = "alive_read"
            /\ UNCHANGED <<h, fpos, present, disk, inbuf, connected, stack, loc>>
       ELSE Raise

alive_read ==
    /\ pc = "alive_read"
    /\ IF connected
       THEN /\ inbuf' = AfterRead
            /\ log' = Append(log, Ev("read", ReadByte))
            /\ loc' = [loc EXCEPT !.retval = AliveResult(ReadByte)]
            /\ Return
            /\ UNCHANGED <<h, fpos, present, disk, connected>>
       ELSE Raise

(***************************************************************************)
(* get_disk_volume                                                         *)
(***************************************************************************)
gdv_write ==
    /\ pc = "gdv_write"
    /\ IF connected
       THEN /\ log' = Append(log, Ev("write", <<ORD.C>>))
            /\ pc' = "gdv_read"
            /\ UNCHANGED <<h, fpos, present, disk, inbuf, connected, stack, loc>>
       ELSE Raise

\* Variant: the wait follows the read whatever it delivered.
GdvOutcome_AlwaysWait(raw_vol) == "wait_char"

\* if raw_vol: ... self.wait_char('C')  else: ... return False
GdvOutcome(raw_vol) == IF raw_vol # << >> THEN "wait_char" ELSE "return"

\* Variant: a single pass.
MoreRounds_Once(rnd) == FALSE

\* for _ in range(2): is there another pass after pass rnd?
MoreRounds(rnd) == rnd + 1 < VOL_ROUNDS

gdv_read ==
    /\ pc = "gdv_read"
    /\ IF connected
       THEN /\ inbuf' = AfterRead
            /\ IF GdvOutcome(ReadByte) = "wait_char"
               THEN \* self.vol = ord(raw_vol); self.wait_char('C')
                    /\ h' = IF ReadByte # << >>
                            THEN [h EXCEPT !.vol = Head(inbuf), !.vol_set = TRUE]
                            ELSE h
                    /\ loc' = [loc EXCEPT !.target = Upper(ORD.C)]
                    /\ log' = log \o <<Ev("read", ReadByte), Ev("wait", <<ORD.C>>)>>
                    /\ Call("wait_char", "gdv_next")
               ELSE \* return False
                    /\ loc' = [loc EXCEPT !.retval = FALSE]
                    /\ log' = Append(log, Ev("read", ReadByte))
                    /\ Return
                    /\ h' = h
            /\ UNCHANGED <<fpos, present, disk, connected>>
       ELSE Raise

gdv_next ==
    /\ pc = "gdv_next"
    /\ IF MoreRounds(loc.rnd)
       THEN /\ loc' = [loc EXCEPT !.rnd = @ + 1]
            /\ pc' = "gdv_write"
            /\ stack' = stack
       ELSE /\ loc' = [loc EXCEPT !.rnd = 0, !.retval = TRUE]
            /\ Return
    /\ UNCHANGED <<h, fpos, present, disk, inbuf, connected, log>>

(***************************************************************************)
(* read_track_volume_problem                                               *)
(***************************************************************************)
rtv_write ==
    /\ pc = "rtv_write"
    /\ IF connected
       THEN /\ log' = Append(log, Ev("write", <<ORD.T>>))
            /\ pc' = "rtv_read"
            /\ UNCHANGED <<h, fpos, present, disk, inbuf, connected, stack, loc>>
       ELSE Raise

rtv_read ==
    /\ pc = "rtv_read"
    /\ IF connected
       THEN /\ inbuf' = AfterRead
            /\ IF ReadByte # << >>
               THEN /\ loc' = [loc EXCEPT !.track_vol = Head(inbuf),
                                          !.target = Upper(ORD.T)]
                    /\ log' = log \o <<Ev("read", ReadByte), Ev("wait", <<ORD.T>>)>>
                    /\ Call("wait_char", "rtv_cmp")
               ELSE \* return True: no response is a problem
                    /\ loc' = [loc EXCEPT !.retval = TRUE]
                    /\ log' = Append(log, Ev("read", ReadByte))
                    /\ Return
            /\ UNCHANGED <<h, fpos, present, disk, connected>>
       ELSE Raise

\* Variant: the comparison is left out.
TrackVolumeProblem_Never(track_vol, selfvol) == FALSE

\* if track_vol != self.vol: return True
TrackVolumeProblem(track_vol, selfvol) == track_vol # selfvol

rtv_cmp ==
    /\ pc = "rtv_cmp"
    /\ loc' = [loc EXCEPT !.retval = TrackVolumeProblem(loc.track_vol, h.vol),
                          !.track_vol = 0]
    /\ Return
    /\ UNCHANGED <<h, fpos, present, disk, inbuf, connected, log>>

(***************************************************************************)
(* read_disk                                                               *)
(***************************************************************************)
\* check_read_error: self.char_of_wait == 'r' compares bytes with a str,
\* which is never equal in Python 3.
BytesEqStr(b, c) == FALSE

\* Variant: only a track acknowledged in lower case is counted.
CountedErrors_OnlyLower(n, ack) == IF ack = <<ORD.r>> THEN n + 1 ELSE n

\* check_read_error: self.read_errors += 1, outside the if.
CountedErrors(n, ack) == n + 1

\* Variant: the direction is not looked at.
ReadRefused_OnlyNoFile(fp, fp_dir) == fp = "None"

\* if not self.fp: return   if self.fp_dir == 'to h89': return
ReadRefused(fp, fp_dir) == fp = "None" \/ fp_dir = "to h89"

rd_start ==
    /\ pc = "rd_start"
    /\ IF ReadRefused(h.fp, h.fp_dir)
       THEN /\ Return
            /\ log' = log
       ELSE /\ log' = Append(log, Ev("is_h89ldr2_alive", << >>))
            /\ Call("alive_write", "rd_alive")
    /\ UNCHANGED <<h, fpos, present, disk, inbuf, connected, loc>>

rd_alive ==
    /\ pc = "rd_alive"
    /\ IF ~loc.retval
       THEN /\ Return
            /\ log' = log
       ELSE IF ~h.override
       THEN /\ log' = Append(log, Ev("get_disk_volume", << >>))
            /\ Call("gdv_write", "rd_gdv")
       ELSE /\ pc' = "rd_begin"
            /\ UNCHANGED <<stack, log>>
    /\ UNCHANGED <<h, fpos, present, disk, inbuf, connected, loc>>

rd_gdv ==
    /\ pc = "rd_gdv"
    /\ IF ~loc.retval
       THEN /\ Return
            /\ log' = log
       ELSE /\ log' = Append(log, Ev("read_track_volume_problem", << >>))
            /\ Call("rtv_write", "rd_rtv")
    /\ UNCHANGED <<h, fpos, present, disk, inbuf, connected, loc>>

rd_rtv ==
    /\ pc = "rd_rtv"
    /\ IF loc.retval
       THEN Return
       ELSE /\ pc' = "rd_begin"
            /\ stack' = stack
    /\ UNCHANGED <<h, fpos, present, disk, inbuf, connected, loc, log>>

\* Variant: no marker before the first track.
StartMarker_None == << >>

\* self.ser.write(b'R') before the loop over the tracks
StartMarker == <<Ev("write", <<ORD.R>>)>>

rd_begin ==
    /\ pc = "rd_begin"
    /\ fpos' = 0
    /\ h' = [h EXCEPT !.read_errors = 0]
    /\ IF connected
       THEN /\ log' = log \o StartMarker
            /\ pc' = "rd_track"
            /\ stack' = stack
       ELSE Throw
    /\ loc' = [loc EXCEPT !.track = 0]
    /\ UNCHANGED <<present, disk, inbuf, connected>>

rd_track ==
    /\ pc = "rd_track"
    /\ IF loc.track < num_tracks
       THEN IF connected
            THEN /\ log' = Append(log, Ev("write", <<ORD.R>>))
                 /\ loc' = [loc EXCEPT !.buffer = << >>, !.i = 0]
                 /\ pc' = "rd_data"
                 /\ stack' = stack
            ELSE /\ Throw
                 /\ loc' = loc
       ELSE /\ pc' = "rd_close"
            /\ UNCHANGED <<stack, log, loc>>
    /\ UNCHANGED <<h, fpos, present, disk, inbuf, connected>>

rd_data ==
    /\ pc = "rd_data"
    /\ IF connected
       THEN /\ inbuf' = AfterRead
            /\ IF loc.i + 1 < track_size
               THEN /\ loc' = [loc EXCEPT !.buffer = @ \o ReadByte, !.i = @ + 1]
                    /\ UNCHANGED <<pc, stack, log>>
               ELSE /\ loc' = [loc EXCEPT !.buffer = @ \o ReadByte, !.i = 0,
                                          !.target = Upper(ORD.R)]
                    /\ log' = Append(log, Ev("wait", <<ORD.R>>))
                    /\ Call("wait_char", "rd_ack")
            /\ UNCHANGED <<h, fpos, present, disk, connected>>
       ELSE Raise

rd_ack ==
    /\ pc = "rd_ack"
    /\ h' = [h EXCEPT !.read_errors = CountedErrors(@, h.char_of_wait)]
    /\ disk' = [disk EXCEPT ![h.fp] = WriteAt(@, fpos, loc.buffer)]
    /\ fpos' = fpos + Len(loc.buffer)
    /\ log' = log \o <<Ev("check_read_error", h.char_of_wait)>>
               \o (IF BytesEqStr(h.char_of_wait, ORD.r)
                      THEN <<Ev("read error detected", <<loc.track>>)>>
                      ELSE << >>)
               \o <<Ev("fp.write", <<loc.track, Len(loc.buffer)>>)>>
    /\ loc' = [loc EXCEPT !.track = @ + 1, !.buffer = << >>]
    /\ pc' = "rd_track"
    /\ UNCHANGED <<present, inbuf, connected, stack>>

\* self.fp.close(); self.fp = None; then print(f"... {fname}.") with no name
\* fname in scope: NameError, which no handler but main's finally meets.
rd_close ==
    /\ pc = "rd_close"
    /\ h' = [h EXCEPT !.fp = "None"]
    /\ log' = Append(log, Ev("NameError", << >>))
    /\ pc' = "finally"
    /\ stack' = << >>
    /\ UNCHANGED <<fpos, present, disk, inbuf, connected, loc>>

(***************************************************************************)
(* send_volume and save_loader_to_disk                                     *)
(***************************************************************************)
\* if not vol: vol = self.vol
EffectiveVol(v, selfvol) == IF v = 0 THEN selfvol ELSE v

\* Variant: the upper limit off by one.
VolInRange_OffByOne(v) == 0 <= v /\ v <= 256

\* 0 <= vol <= 255
VolInRange(v) == 0 <= v /\ v <= 255

sv_start ==
    /\ pc = "sv_start"
    /\ IF ~VolInRange(EffectiveVol(loc.sv_vol, h.vol))
       THEN /\ log' = Append(log, Ev("No volume number set?", << >>))
            /\ loc' = [loc EXCEPT !.sv_vol = 0]
            /\ Return
            /\ UNCHANGED <<h, fpos, present, disk, inbuf, connected>>
       ELSE IF connected
       THEN /\ log' = Append(log, Ev("write", <<ORD.V>>))
            /\ loc' = [loc EXCEPT !.sv_vol = EffectiveVol(loc.sv_vol, h.vol)]
            /\ pc' = "sv_byte"
            /\ UNCHANGED <<h, fpos, present, disk, inbuf, connected, stack>>
       ELSE Raise

sv_byte ==
    /\ pc = "sv_byte"
    /\ IF connected
       THEN /\ log' = log \o <<Ev("write", <<loc.sv_vol>>), Ev("wait", <<ORD.V>>)>>
            /\ loc' = [loc EXCEPT !.target = Upper(ORD.V)]
            /\ Call("wait_char", "sv_done")
            /\ UNCHANGED <<h, fpos, present, disk, inbuf, connected>>
       ELSE Raise

sv_done ==
    /\ pc = "sv_done"
    /\ log' = Append(log, Ev("H89 Volume set", <<loc.sv_vol>>))
    /\ loc' = [loc EXCEPT !.sv_vol = 0]
    /\ Return
    /\ UNCHANGED <<h, fpos, present, disk, inbuf, connected>>

sl_start ==
    /\ pc = "sl_start"
    /\ log' = Append(log, Ev("is_h89ldr2_alive", << >>))
    /\ Call("alive_write", "sl_alive")
    /\ UNCHANGED <<h, fpos, present, disk, inbuf, connected, loc>>

sl_alive ==
    /\ pc = "sl_alive"
    /\ IF ~loc.retval
       THEN /\ Return
            /\ UNCHANGED <<log, loc>>
       ELSE \* self.send_volume(0)
            /\ log' = Append(log, Ev("send_volume", <<0>>))
            /\ loc' = [loc EXCEPT !.sv_vol = 0]
            /\ Call("sv_start", "sl_save")
    /\ UNCHANGED <<h, fpos, present, disk, inbuf, connected>>

sl_save ==
    /\ pc = "sl_save"
    /\ IF connected
       THEN /\ log' = log \o <<Ev("write", <<ORD.S>>), Ev("wait", <<ORD.S>>)>>
            /\ loc' = [loc EXCEPT !.target = Upper(ORD.S)]
            /\ Call("wait_char", "sl_done")
            /\ UNCHANGED <<h, fpos, present, disk, inbuf, connected>>
       ELSE Raise

sl_done ==
    /\ pc = "sl_done"
    /\ Return
    /\ UNCHANGED <<h, fpos, present, disk, inbuf, connected, loc, log>>

(***************************************************************************)
(* write_disk, with get_image_volume, send_interleave and                  *)
(* read_track_from_image                                                   *)
(***************************************************************************)
\* get_image_volume: self.fp.seek(0x900); raw = self.fp.read(1)
ImageVolumeByte(data) ==
    IF Len(data) > VOL_OFFSET THEN <<data[VOL_OFFSET + 1]>> ELSE << >>

\* Variant: every track is read at the start of the file.
ReadTrack_NoAdvance(data, pos) ==
    SubSeq(data, 1, IF track_size <= Len(data) THEN track_size ELSE Len(data))

\* read_track_from_image: self.fp.read(self.track_size)
ReadTrack(data, pos) ==
    SubSeq(data, pos + 1, IF pos + track_size <= Len(data)
                          THEN pos + track_size ELSE Len(data))

\* Variant: a track that is short is sent as it is.
ShortRead_Never(track) == FALSE

\* read_track_from_image: if len(track) != self.track_size
ShortRead(track) == Len(track) # track_size

\* if not self.fp: return   if self.fp_dir == 'from h89': return
\* (write_disk and send_abs)
SendRefused(fp, fp_dir) == fp = "None" \/ fp_dir = "from h89"

\* Variant: the volume of the image is read whatever the override.
UsesImageVolume_Always(override) == TRUE

\* if self.override: send_volume(self.vol)
\* else: send_volume(self.get_image_volume())
UsesImageVolume(override) == ~override

wd_start ==
    /\ pc = "wd_start"
    /\ IF SendRefused(h.fp, h.fp_dir)
       THEN /\ Return
            /\ UNCHANGED <<h, fpos, loc, log>>
       ELSE IF ~UsesImageVolume(h.override)
       THEN \* self.send_volume(self.vol)
            /\ log' = Append(log, Ev("send_volume", <<h.vol>>))
            /\ loc' = [loc EXCEPT !.sv_vol = h.vol]
            /\ Call("sv_start", "wd_il")
            /\ UNCHANGED <<h, fpos>>
       ELSE \* self.send_volume(self.get_image_volume())
            LET raw == ImageVolumeByte(disk[h.fp])
                v == IF raw # << >> THEN Head(raw) ELSE h.vol
            IN  /\ h' = [h EXCEPT !.vol = v,
                                  !.vol_set = (raw # << >>) \/ h.vol_set]
                /\ fpos' = 0
                /\ log' = log \o <<Ev("get_image_volume", raw),
                                   Ev("send_volume", <<v>>)>>
                /\ loc' = [loc EXCEPT !.sv_vol = v]
                /\ Call("sv_start", "wd_il")
    /\ UNCHANGED <<present, disk, inbuf, connected>>

\* self.fp.seek(0); send_interleave: self.ser.write(b'I')
wd_il ==
    /\ pc = "wd_il"
    /\ fpos' = 0
    /\ IF connected
       THEN /\ log' = Append(log, Ev("write", <<ORD.I>>))
            /\ pc' = "wd_il2"
            /\ stack' = stack
       ELSE Throw
    /\ UNCHANGED <<h, present, disk, inbuf, connected, loc>>

wd_il2 ==
    /\ pc = "wd_il2"
    /\ IF connected
       THEN /\ log' = log \o <<Ev("write", <<h.interleave_factor - 1>>),
                               Ev("wait", <<ORD.I>>)>>
            /\ loc' = [loc EXCEPT !.target = Upper(ORD.I)]
            /\ Call("wait_char", "wd_w")
            /\ UNCHANGED <<h, fpos, present, disk, inbuf, connected>>
       ELSE Raise

wd_w ==
    /\ pc = "wd_w"
    /\ IF connected
       THEN /\ log' = Append(log, Ev("write", <<ORD.W>>))
            /\ loc' = [loc EXCEPT !.track = 0]
            /\ pc' = "wd_track"
            /\ UNCHANGED <<h, fpos, present, disk, inbuf, connected, stack>>
       ELSE Raise

\* errout() is exit(1): SystemExit leaves main through its finally clause.
wd_track ==
    /\ pc = "wd_track"
    /\ IF loc.track < num_tracks
       THEN LET data == ReadTrack(disk[h.fp], fpos)
            IN  /\ fpos' = fpos + Len(data)
                /\ IF ShortRead(data)
                   THEN /\ log' = Append(log, Ev("Short read", <<Len(data)>>))
                        /\ pc' = "finally"
                        /\ stack' = << >>
                        /\ loc' = loc
                   ELSE IF connected
                   THEN /\ log' = Append(log, Ev("write", <<ORD.W>>))
                        /\ loc' = [loc EXCEPT !.buffer = data]
                        /\ pc' = "wd_data"
                        /\ stack' = stack
                   ELSE /\ Throw
                        /\ loc' = loc
       ELSE /\ log' = Append(log, Ev("Disk Write Complete", << >>))
            /\ loc' = loc
            /\ fpos' = fpos
            /\ Return
    /\ UNCHANGED <<h, present, disk, inbuf, connected>>

wd_data ==
    /\ pc = "wd_data"
    /\ IF connected
       THEN /\ log' = log \o <<Ev("write", loc.buffer), Ev("wait", <<ORD.W>>)>>
            /\ loc' = [loc EXCEPT !.target = Upper(ORD.W), !.buffer = << >>]
            /\ Call("wait_char", "wd_next")
            /\ UNCHANGED <<h, fpos, present, disk, inbuf, connected>>
       ELSE Raise

wd_next ==
    /\ pc = "wd_next"
    /\ loc' = [loc EXCEPT !.track = @ + 1]
    /\ pc' = "wd_track"
    /\ UNCHANGED <<h, fpos, present, disk, inbuf, connected, stack, log>>

(***************************************************************************)
(* send_abs                                                                *)
(***************************************************************************)
\* struct.unpack('<HHHH', s): field k (0..3) of the 8-byte header.
LE16(s, k) == s[2 * k + 1] + 256 * s[2 * k + 2]

\* Variant: only the low byte of the magic number is looked at.
BadMagic_LowByte(magic) == magic % 256 # 255

\* Variant: 'or' where the code has 'and'.
BadMagic_Either(magic) == magic # 255 \/ magic # 511

\* magic != 0x00FF and magic != 0x01FF
BadMagic(magic) == magic # 255 /\ magic # 511

\* The memory map of the H89, as the class keeps it.
BBEGIN == 8960
BEND == 9001
LBEGIN == 9001
LEND == 9819
FBEGIN == 5120
FEND == 6144 - 1

\* Variant: the address of the last byte loaded.
EndAddr_LastByte(addr, length) == addr + length - 1

\* endaddr = addr + length
EndAddr(addr, length) == addr + length

\* The warnings and notes send_abs prints for a header, in the order of the
\* prints.  None of them ends the command.
Diagnostics(addr, length, entry) ==
    LET endaddr == EndAddr(addr, length)
        Msg(c, k) == IF c THEN <<Ev(k, << >>)>> ELSE << >>
    IN  Msg(endaddr > 65535, "WARNING: beyond 64K")
        \o Msg(addr <= FEND /\ endaddr >= FBEGIN, "WARNING: overwrites ABSLDR")
        \o Msg(addr <= BEND /\ endaddr >= BBEGIN, "NOTE: overwrites BOOTSTRP")
        \o Msg(addr <= LEND /\ endaddr >= LBEGIN,
               "NOTE: overwrites QUARTERSHIM")
        \o Msg(entry = FBEGIN, "NOTE: multipart")
        \o Msg(entry # FBEGIN /\ (entry < addr \/ endaddr < entry),
               "WARNING: entry outside")

\* The header line that is printed, the end address, and the diagnostics.
HeaderReport(s) ==
    <<Ev("header", <<LE16(s, 0), LE16(s, 1), LE16(s, 2), LE16(s, 3)>>),
      Ev("endaddr", <<EndAddr(LE16(s, 1), LE16(s, 2))>>)>>
    \o Diagnostics(LE16(s, 1), LE16(s, 2), LE16(s, 3))

\* self.fp.seek(0); s = self.fp.read(8); a header that is short makes
\* struct.unpack raise struct.error, which leaves main through its finally
\* clause.  The diagnostics come before the test of the magic number, which
\* comes before the first byte on the channel.
sa_start ==
    /\ pc = "sa_start"
    /\ IF SendRefused(h.fp, h.fp_dir)
       THEN /\ Return
            /\ UNCHANGED <<fpos, loc, log>>
       ELSE LET s == SubSeq(disk[h.fp], 1, IF Len(disk[h.fp]) < 8
                                            THEN Len(disk[h.fp]) ELSE 8)
            IN  /\ fpos' = Len(s)
                /\ IF Len(s) < 8
                   THEN /\ log' = Append(log, Ev("struct.error", << >>))
                        /\ pc' = "finally"
                        /\ stack' = << >>
                        /\ loc' = loc
                   ELSE IF BadMagic(LE16(s, 0))
                   THEN /\ log' = log \o HeaderReport(s)
                                      \o <<Ev("not an ABS file", << >>)>>
                        /\ loc' = loc
                        /\ Return
                   ELSE IF connected
                   THEN /\ log' = log \o HeaderReport(s)
                                      \o <<Ev("write", <<ORD.B>>),
                                           Ev("wait", <<ORD.B>>)>>
                        /\ loc' = [loc EXCEPT !.target = Upper(ORD.B)]
                        /\ Call("wait_char", "sa_send")
                   ELSE /\ pc' = Handler
                        /\ stack' = << >>
                        /\ log' = log \o HeaderReport(s)
                                      \o <<Ev("SerialException", << >>)>>
                        /\ loc' = loc
    /\ UNCHANGED <<h, present, disk, inbuf, connected>>

\* Variant: the bytes after the 8-byte header only.
AbsStream_Rest(data) == SubSeq(data, 9, Len(data))

\* self.fp.seek(0); data = self.fp.read(): the whole file, header included.
AbsStream(data) == data

\* self.ser.write(bytes(data)), one write, then wait_char('B').
sa_send ==
    /\ pc = "sa_send"
    /\ fpos' = Len(disk[h.fp])
    /\ IF connected
       THEN /\ log' = log \o <<Ev("All good", << >>),
                               Ev("write", AbsStream(disk[h.fp])),
                               Ev("wait", <<ORD.B>>)>>
            /\ Call("wait_char", "sa_done")
       ELSE /\ pc' = Handler
            /\ stack' = << >>
            /\ log' = log \o <<Ev("All good", << >>),
                               Ev("SerialException", << >>)>>
    /\ UNCHANGED <<h, present, disk, inbuf, connected, loc>>

\* print('Confirmed.')
sa_done ==
    /\ pc = "sa_done"
    /\ log' = Append(log, Ev("Confirmed", << >>))
    /\ Return
    /\ UNCHANGED <<h, fpos, present, disk, inbuf, connected, loc>>

(***************************************************************************)
(* write_loader ('L': H89LDR2.BIN, 'Q': QUARTERSHIM.BIN) and               *)
(* write_absloader ('F')                                                   *)
(***************************************************************************)
\* The files the loader commands may find: of the right size, one byte
\* short, one byte long.  Byte k of a file is k.
LoaderImages(size) == {[k \in 1..n |-> k] : n \in {size - 1, size, size + 1}}

\* Variant: the file as it is.
Reversed_Forward(data) == data

\* reversed(data)
Reversed(data) == [k \in 1..Len(data) |-> data[Len(data) + 1 - k]]

\* Variant: a file that is too long is accepted.
WrongSize_OnlyShort(file_size, size) == file_size < size

\* if file_size != ldr_size   /   if actual_size != 1024
WrongSize(file_size, size) == file_size # size

\* Variant: any byte the H89 sends stops the upload.
AlreadyLoaded_AnyByte(raw) == raw # << >>

\* if self.ser.read(1) == b'?'
AlreadyLoaded(raw) == raw = <<QUESTION>>

\* open(filename, "rb") (exists = FALSE: OSError), f.read(), the size check.
wl_start ==
    /\ pc = "wl_start"
    /\ \E exists \in BOOLEAN, data \in LoaderImages(ldr_size) :
          IF ~exists
          THEN /\ log' = Append(log, Ev("Can't read Loader File", << >>))
               /\ loc' = loc
               /\ Return
          ELSE IF WrongSize(Len(data), ldr_size)
          THEN /\ log' = Append(log, Ev("Error: size", <<Len(data)>>))
               /\ loc' = loc
               /\ Return
          ELSE /\ log' = Append(log, Ev("Sending", <<Len(data)>>))
               /\ loc' = [loc EXCEPT !.buffer = data, !.i = 0]
               /\ pc' = "wl_flush"
               /\ stack' = stack
    /\ UNCHANGED <<h, fpos, present, disk, inbuf, connected>>

\* Variant: the loop that flushes is never entered.
MoreToFlush_Never(in_waiting) == FALSE

\* while self.ser.in_waiting > 0
MoreToFlush(in_waiting) == in_waiting > 0

\* The log's entry for the bytes flushed so far, after one more: it tells
\* whether a '?' was among them.
FlushedEntry(lg, raw) ==
    LET last == lg[Len(lg)]
        before == IF last[1] = "flushed" THEN last[2] ELSE << >>
        now == IF raw = <<QUESTION>> THEN raw ELSE before
    IN  IF last[1] = "flushed"
        THEN [lg EXCEPT ![Len(lg)] = Ev("flushed", now)]
        ELSE Append(lg, Ev("flushed", now))

\* while self.ser.in_waiting > 0: print(prtchr(self.ser.read(1)))
\* (the log keeps one entry for all the bytes flushed)
wl_flush ==
    /\ pc = "wl_flush"
    /\ IF ~connected
       THEN Raise
       ELSE /\ IF MoreToFlush(Len(inbuf))
               THEN /\ log' = FlushedEntry(log, ReadByte)
                    /\ inbuf' = AfterRead
                    /\ pc' = pc
               ELSE /\ log' = log
                    /\ inbuf' = inbuf
                    /\ pc' = "wl_check"
            /\ UNCHANGED <<h, fpos, present, disk, connected, stack, loc>>

\* for byte in reversed(data): if self.ser.in_waiting > 0: ...
wl_check ==
    /\ pc = "wl_check"
    /\ IF loc.i = Len(loc.buffer)
       THEN /\ pc' = "wl_pad"
            /\ UNCHANGED <<stack, log, inbuf>>
            /\ UNCHANGED <<h, fpos, present, disk, connected, loc>>
       ELSE IF ~connected
       THEN Raise
       ELSE /\ inbuf' = AfterRead
            /\ IF inbuf = << >>
               THEN /\ pc' = "wl_send"
                    /\ UNCHANGED <<stack, log>>
               ELSE IF AlreadyLoaded(ReadByte)
               THEN /\ log' = log \o <<Ev("read", ReadByte),
                                       Ev("Already loaded?", <<loc.i>>)>>
                    /\ Return
               ELSE /\ log' = Append(log, Ev("read", ReadByte))
                    /\ pc' = "wl_send"
                    /\ stack' = stack
            /\ UNCHANGED <<h, fpos, present, disk, connected, loc>>

\* self.ser.write(bytes([byte]))
wl_send ==
    /\ pc = "wl_send"
    /\ IF connected
       THEN /\ log' = Append(log, Ev("write", <<Reversed(loc.buffer)[loc.i + 1]>>))
            /\ loc' = [loc EXCEPT !.i = @ + 1]
            /\ pc' = "wl_check"
            /\ UNCHANGED <<h, fpos, present, disk, inbuf, connected, stack>>
       ELSE Raise

\* self.ser.write(b'\x00' * 40)
wl_pad ==
    /\ pc = "wl_pad"
    /\ IF connected
       THEN /\ log' = Append(log, Ev("write", [k \in 1..PAD_LEN |-> 0]))
            /\ pc' = "wl_probe"
            /\ UNCHANGED <<h, fpos, present, disk, inbuf, connected, stack, loc>>
       ELSE Raise

\* self.ser.write(b'A'); self.wait_char('?')
wl_probe ==
    /\ pc = "wl_probe"
    /\ IF connected
       THEN /\ log' = log \o <<Ev("write", <<ORD.A>>), Ev("wait", <<QUESTION>>)>>
            /\ loc' = [loc EXCEPT !.target = Upper(QUESTION)]
            /\ Call("wait_char", "wl_done")
            /\ UNCHANGED <<h, fpos, present, disk, inbuf, connected>>
       ELSE Raise

wl_done ==
    /\ pc = "wl_done"
    /\ log' = Append(log, Ev("H89 Loader active", << >>))
    /\ Return
    /\ UNCHANGED <<h, fpos, present, disk, inbuf, connected, loc>>

\* os.path.getsize(filename) (exists = FALSE: OSError), the size check,
\* self.ser.write(b'F'); self.wait_char('F')
wa_start ==
    /\ pc = "wa_start"
    /\ \E exists \in BOOLEAN, data \in LoaderImages(absldr_size) :
          IF ~exists
          THEN /\ log' = Append(log, Ev("Problem reading", << >>))
               /\ loc' = loc
               /\ Return
          ELSE IF WrongSize(Len(data), absldr_size)
          THEN /\ log' = Append(log, Ev("ERROR: Size", <<Len(data)>>))
               /\ loc' = loc
               /\ Return
          ELSE IF connected
          THEN /\ log' = log \o <<Ev("write", <<ORD.F>>), Ev("wait", <<ORD.F>>)>>
               /\ loc' = [loc EXCEPT !.buffer = data, !.target = Upper(ORD.F)]
               /\ Call("wait_char", "wa_send")
          ELSE /\ Throw
               /\ loc' = loc
    /\ UNCHANGED <<h, fpos, present, disk, inbuf, connected>>

\* data = fp.read(); self.ser.write(bytes(reversed(data))); self.wait_char('F')
wa_send ==
    /\ pc = "wa_send"
    /\ IF connected
       THEN /\ log' = log \o <<Ev("write", Reversed(loc.buffer)),
                               Ev("wait", <<ORD.F>>)>>
            /\ Call("wait_char", "wa_done")
            /\ UNCHANGED <<h, fpos, present, disk, inbuf, connected, loc>>
       ELSE Raise

wa_done ==
    /\ pc = "wa_done"
    /\ log' = Append(log, Ev("Confirmed", << >>))
    /\ Return
    /\ UNCHANGED <<h, fpos, present, disk, inbuf, connected, loc>>

(***************************************************************************)
(* The menu: display_menu, command_execute, and the one-step commands      *)
(***************************************************************************)
Entry == [R |-> "rd_start", S |-> "sl_start", W |-> "wd_start", A |-> "sa_start",
          L |-> "wl_start", Q |-> "wl_start", F |-> "wa_start"]

\* command_execute for the commands that talk to the H89.
command_execute(choices) ==
    /\ pc = "menu"
    /\ \E c \in choices :
          /\ pc' = Entry[c]
          /\ loc' = [NoLocals EXCEPT !.op = c]
    /\ stack' = <<"done">>
    /\ log' = << >>
    /\ UNCHANGED <<h, fpos, present, disk, inbuf, connected>>

\* The command returned: back to display_menu.
display_menu ==
    /\ pc = "done"
    /\ pc' = "menu"
    /\ stack' = << >>
    /\ loc' = NoLocals
    /\ log' = << >>
    /\ UNCHANGED <<h, fpos, present, disk, inbuf, connected>>

\* Variant: the number as typed.
MaskVol_None(n) == n

\* int(val) & 0xFF
MaskVol(n) == n % 256

\* get_volume: volume_override (flip if the user says Y), then, if
\* overriding, the prompt for the number; an empty or invalid answer keeps
\* the volume.
get_volume(inputs) ==
    /\ pc = "menu"
    /\ \E yes \in BOOLEAN, keep \in BOOLEAN, val \in inputs :
          LET ov == IF yes THEN ~h.override ELSE h.override
          IN  h' = IF ov /\ ~keep
                   THEN [h EXCEPT !.override = ov, !.vol = MaskVol(val),
                                  !.vol_set = TRUE]
                   ELSE [h EXCEPT !.override = ov]
    /\ UNCHANGED <<fpos, present, disk, inbuf, connected, pc, stack, loc, log>>

\* Variant: every file is opened for writing.
ExistsWithData_Never(exists, size) == FALSE

\* os.path.exists(filename) and os.path.getsize(filename)
ExistsWithData(exists, size) == exists /\ size > 0

\* open_image_file: the file chosen at the prompt (or none: cancelled);
\* ok = FALSE is open() raising IOError.
open_image_file(names) ==
    /\ pc = "menu"
    /\ \/ /\ h' = [h EXCEPT !.fp = "None"]
          /\ UNCHANGED <<fpos, present, disk>>
       \/ \E filename \in names, ok \in BOOLEAN :
             IF ExistsWithData(filename \in present, Len(disk[filename]))
             THEN /\ h' = IF ok THEN [h EXCEPT !.fp = filename, !.fp_dir = "to h89",
                                                !.fp_mode = "rb"]
                                ELSE [h EXCEPT !.fp = "None"]
                  /\ fpos' = 0
                  /\ UNCHANGED <<present, disk>>
             ELSE IF ok
             THEN /\ h' = [h EXCEPT !.fp = filename, !.fp_dir = "from h89",
                                    !.fp_mode = "wb"]
                  /\ fpos' = 0
                  /\ present' = present \cup {filename}
                  /\ disk' = [disk EXCEPT ![filename] = << >>]
             ELSE /\ h' = [h EXCEPT !.fp = "None"]
                  /\ UNCHANGED <<fpos, present, disk>>
    /\ UNCHANGED <<inbuf, connected, pc, stack, loc, log>>

\* The keys '1', '2', '3' that set_interleave accepts.
InterleaveKeys == {ORD.one, ORD.two, ORD.three}

\* int(k) of a digit key
IntOfKey(k) == k - ORD.zero

\* 'I' set_interleave: while True: k = get_key(...); an accepted key sets
\* the factor and ends the loop, any other key prints the help and asks
\* again.  The log holds the last key and what was printed for it.
set_interleave(keys) ==
    /\ pc \in {"menu", "set_interleave"}
    /\ \E k \in keys :
          IF k \in InterleaveKeys
          THEN /\ h' = [h EXCEPT !.interleave_factor = IntOfKey(k)]
               /\ log' = <<Ev("get_key", <<k>>),
                           Ev("Interleave set", <<IntOfKey(k)>>)>>
               /\ pc' = "done"
          ELSE /\ h' = h
               /\ log' = <<Ev("get_key", <<k>>), Ev("help", << >>)>>
               /\ pc' = "set_interleave"
    /\ stack' = << >>
    /\ loc' = [NoLocals EXCEPT !.op = "I"]
    /\ UNCHANGED <<fpos, present, disk, inbuf, connected>>

\* Variant: the rates of the line that is commented out are offered too.
rates_More ==
    [c \in {ORD.one, ORD.two, ORD.three, ORD.four, ORD.five} |->
        CASE c = ORD.four -> 9600 [] c = ORD.three -> 4800
          [] c = ORD.two -> 2400  [] c = ORD.one -> 1200
          [] OTHER -> 19200]

\* rates = {'4':9600, '3':4800, '2':2400, '1':1200, }
rates ==
    [c \in {ORD.one, ORD.two, ORD.three, ORD.four} |->
        CASE c = ORD.four -> 9600 [] c = ORD.three -> 4800
          [] c = ORD.two -> 2400  [] OTHER -> 1200]

\* 'B' set_baud_rate: c = get_key('? '); a key of rates sets the baud rate
\* of the channel, any other key is reported and the rate remains.
set_baud_rate(keys) ==
    /\ pc = "menu"
    /\ \E c \in keys :
          IF c \in DOMAIN rates
          THEN /\ h' = [h EXCEPT !.baudrate = rates[c]]
               /\ log' = <<Ev("get_key", <<c>>),
                           Ev("Baud rate updated", <<rates[c]>>)>>
          ELSE /\ h' = h
               /\ log' = <<Ev("get_key", <<c>>),
                           Ev("is not a valid number", <<c>>),
                           Ev("Baud rate remains", <<h.baudrate>>)>>
    /\ pc' = "done"
    /\ stack' = << >>
    /\ loc' = [NoLocals EXCEPT !.op = "B"]
    /\ UNCHANGED <<fpos, present, disk, inbuf, connected>>

\* 'X': exit(0), through the finally clause of main.
exit_command ==
    /\ pc = "menu"
    /\ pc' = "finally"
    /\ UNCHANGED <<h, fpos, present, disk, inbuf, connected, stack, loc, log>>

(***************************************************************************)
(* friends/h8clxfer.py: load_second_stage_bootloader                       *)
(*                                                                         *)
(* A program of its own, with a serial port sp of its own; it ends by      *)
(* sys.exit, and a serial exception ends it too.  loc.buffer is c, the     *)
(* bytes of the file, and loc.i the index i into c, counted from 0 as in   *)
(* the code.                                                               *)
(***************************************************************************)
\* What sp.write(c[i]) puts on the line.  c[i] of a bytes object is an int
\* under Python 3 and a one-character string under Python 2; pyserial hands
\* the argument to bytes(bytearray(...)), which makes of an int n a run of n
\* NUL bytes, or (older versions) raises TypeError, shown here as << -1 >>.
WrittenFor(b) == {<<b>>, [k \in 1..b |-> 0], <<0 - 1>>}

\* while i > 0
MoreToSend(i) == i > 0

\* sp.write(b'L'); resp = sp.read(1) comes next
ls_start ==
    /\ pc = "ls_start"
    /\ IF connected
       THEN /\ log' = Append(log, Ev("write", <<ORD.L>>))
            /\ pc' = "ls_read"
       ELSE /\ log' = Append(log, Ev("SerialException", << >>))
            /\ pc' = "exited"
    /\ UNCHANGED <<h, fpos, present, disk, inbuf, connected, stack, loc>>

\* resp = sp.read(1); if resp == b'?': sys.exit(0); c = fp.read();
\* i = len(c) - 1
ls_read ==
    /\ pc = "ls_read"
    /\ IF ~connected
       THEN /\ log' = Append(log, Ev("SerialException", << >>))
            /\ pc' = "exited"
            /\ UNCHANGED <<inbuf, loc>>
       ELSE /\ inbuf' = AfterRead
            /\ IF ReadByte = <<QUESTION>>
               THEN /\ log' = log \o <<Ev("read", ReadByte),
                                       Ev("already loaded", << >>)>>
                    /\ pc' = "exited"
                    /\ loc' = loc
               ELSE /\ log' = Append(log, Ev("read", ReadByte))
                    /\ pc' = "ls_loop"
                    /\ \E c \in LoaderImages(ldr_size) :
                          loc' = [loc EXCEPT !.buffer = c, !.i = Len(c) - 1]
    /\ UNCHANGED <<h, fpos, present, disk, connected, stack>>

\* while i > 0: sp.write(c[i]); time.sleep(0.01); i = i - 1
\* and, after the loop, sp.write(b'L')
ls_loop ==
    /\ pc = "ls_loop"
    /\ IF ~connected
       THEN /\ log' = Append(log, Ev("SerialException", << >>))
            /\ pc' = "exited"
            /\ loc' = loc
       ELSE IF MoreToSend(loc.i)
       THEN \E w \in WrittenFor(loc.buffer[loc.i + 1]) :
               IF w = <<0 - 1>>
               THEN /\ log' = Append(log, Ev("TypeError", << >>))
                    /\ pc' = "exited"
                    /\ loc' = loc
               ELSE /\ log' = Append(log, Ev("write", w))
                    /\ pc' = pc
                    /\ loc' = [loc EXCEPT !.i = @ - 1]
       ELSE /\ log' = Append(log, Ev("write", <<ORD.L>>))
            /\ pc' = "ls_result"
            /\ loc' = loc
    /\ UNCHANGED <<h, fpos, present, disk, inbuf, connected, stack>>

\* resp = sp.read(1); if resp == b'?': "Success", sys.exit(0)
\* else: "Uploading failed", sys.exit(1)
ls_result ==
    /\ pc = "ls_result"
    /\ IF ~connected
       THEN /\ log' = Append(log, Ev("SerialException", << >>))
            /\ inbuf' = inbuf
       ELSE /\ inbuf' = AfterRead
            /\ log' = log \o <<Ev("read", ReadByte),
                               Ev(IF ReadByte = <<QUESTION>>
                                  THEN "Success" ELSE "Uploading failed",
                                  << >>)>>
    /\ pc' = "exited"
    /\ UNCHANGED <<h, fpos, present, disk, connected, stack, loc>>

(***************************************************************************)
(* main: the handlers around the menu loop                                 *)
(***************************************************************************)
\* except serial.SerialException: h.select_port(), which opens a channel anew
\* or, with no port left, calls exit(1).
\* Variant: the session starts over with the new port.
Reopened_NewSession(hh) == InitSession

\* self.ser = self.initialize_port(self.port, self.default_baud): the session
\* with its channel replaced by the port just opened.
Reopened(hh) == [hh EXCEPT !.baudrate = default_baud]

select_port ==
    /\ pc = "except_serial"
    /\ \/ /\ connected' = TRUE
          /\ inbuf' = << >>
          /\ h' = Reopened(h)
          /\ pc' = "done"
          /\ log' = <<Ev("select_port", << >>)>>
       \/ /\ pc' = "finally"
          /\ log' = << >>
          /\ UNCHANGED <<h, connected, inbuf>>
    /\ stack' = << >>
    /\ loc' = NoLocals
    /\ UNCHANGED <<fpos, present, disk>>

\* except KeyboardInterrupt: an interrupt in any call of the session leaves
\* the loop for the finally clause.
keyboard_interrupt ==
    /\ pc \notin {"finally", "exited"}
    /\ pc' = "finally"
    /\ stack' = << >>
    /\ log' = Append(log, Ev("KeyboardInterrupt", << >>))
    /\ UNCHANGED <<h, fpos, present, disk, inbuf, connected, loc>>

\* Variant: the file is taken for empty when nothing was written through
\* this handle.
StillEmpty_Always(data) == TRUE

\* os.path.getsize(h.fp.name) == 0
StillEmpty(data) == Len(data) = 0

\* finally: if h.fp: close the file (its file object is then closed),
\* remove it if it is empty; exit(0).
main_finally ==
    /\ pc = "finally"
    /\ present' = IF h.fp # "None" /\ StillEmpty(disk[h.fp])
                  THEN present \ {h.fp} ELSE present
    /\ h' = IF h.fp # "None" THEN [h EXCEPT !.fp_mode = "closed"] ELSE h
    /\ pc' = "exited"
    /\ UNCHANGED <<fpos, disk, inbuf, connected, stack, loc, log>>

(***************************************************************************)
(* The environment                                                         *)
(***************************************************************************)
\* The H89 sends a byte.
RemoteSend(bytes, cap) ==
    /\ pc # "exited"
    /\ connected
    /\ Len(inbuf) < cap
    /\ \E b \in bytes : inbuf' = Append(inbuf, b)
    /\ UNCHANGED <<h, fpos, present, disk, connected, pc, stack, loc, log>>

\* The H89 answers while the PC waits in a read: where the PC waits for an
\* acknowledgment, with the letter it waits for; elsewhere with the letter of
\* the command it was sent last; or with a NUL.
AtRead == pc \in {"wait_char", "alive_read", "gdv_read", "rtv_read", "rd_data"}

LetterWrites ==
    {k \in 1..Len(log) : /\ log[k][1] = "write"
                          /\ Len(log[k][2]) = 1
                          /\ log[k][2][1] \in 65..90}

Answers ==
    IF pc = "wait_char" THEN {loc.target, 0}
    ELSE IF LetterWrites = {} THEN {}
    ELSE LET k == CHOOSE n \in LetterWrites : \A j \in LetterWrites : j <= n
         IN  {log[k][2][1], 0}

RemoteAnswer ==
    /\ AtRead
    /\ connected
    /\ inbuf = << >>
    /\ \E b \in Answers : inbuf' = <<b>>
    /\ UNCHANGED <<h, fpos, present, disk, connected, pc, stack, loc, log>>

\* The H89 answers as above, but where the PC waits for an acknowledgment,
\* with the letter or its lower-case form (H89LDR2's report of an error), and
\* where the PC reads the data of a track, with the letter or not at all.
Replies ==
    IF pc = "wait_char" THEN {b + d : b \in Answers \ {0}, d \in {0, 32}}
    ELSE IF pc = "rd_data" THEN Answers \ {0}
    ELSE Answers

RemoteReply ==
    /\ AtRead
    /\ connected
    /\ inbuf = << >>
    /\ \E b \in Replies : inbuf' = <<b>>
    /\ UNCHANGED <<h, fpos, present, disk, connected, pc, stack, loc, log>>

\* The connection is lost.
Disconnect ==
    /\ pc \notin {"exited", "finally", "except_serial"}
    /\ connected
    /\ connected' = FALSE
    /\ UNCHANGED <<h, fpos, present, disk, inbuf, pc, stack, loc, log>>

\* The steps of the functions every command shares.
Handshake == wait_char \/ alive_write \/ alive_read
Volume == gdv_write \/ gdv_read \/ gdv_next \/ rtv_write \/ rtv_read \/ rtv_cmp
SendVolume == sv_start \/ sv_byte \/ sv_done
ReadDisk == rd_start \/ rd_alive \/ rd_gdv \/ rd_rtv \/ rd_begin \/ rd_track
            \/ rd_data \/ rd_ack \/ rd_close
SaveLoader == sl_start \/ sl_alive \/ sl_save \/ sl_done
WriteDisk == wd_start \/ wd_il \/ wd_il2 \/ wd_w \/ wd_track \/ wd_data \/ wd_next
SendAbs == sa_start \/ sa_send \/ sa_done
WriteLoader == wl_start \/ wl_flush \/ wl_check \/ wl_send \/ wl_pad
               \/ wl_probe \/ wl_done
WriteAbsLoader == wa_start \/ wa_send \/ wa_done
Main == display_menu \/ exit_command \/ select_port \/ main_finally

(***************************************************************************)
(* SpecHandshake: a session of the commands 'V' (get_volume) and 'S'       *)
(* (save_loader_to_disk), which exercise is_h89ldr2_alive, send_volume and *)
(* wait_char.  The H89 may send 'V', 'v' or 'S' at any time.               *)
(***************************************************************************)
HandshakeBytes == {ORD.V, ORD.v, ORD.S}
VolInputs == {0, 5, 261}

NextHandshake ==
    \/ command_execute({"S"})
    \/ get_volume(VolInputs)
    \/ Handshake \/ SendVolume \/ SaveLoader \/ Main
    \/ RemoteSend(HandshakeBytes, MaxIn)
    \/ Disconnect

SpecHandshake == Init /\ [][NextHandshake]_vars

\* The program is scheduled whenever it can take a step: it is the only
\* thread, and a read that has a byte to deliver returns.
FairHandshake == SpecHandshake /\ WF_vars(wait_char)

(***************************************************************************)
(* SpecSendVolume: send_volume(v) called on its own, for arguments in and  *)
(* out of range, in a session whose volume is unset, or set (to 0 or 5).   *)
(***************************************************************************)
VolArgs == {0 - 1, 0, 5, 255, 256}

InitSendVolume ==
    /\ \E v \in {0, 5}, set \in BOOLEAN :
          /\ v # 0 => set
          /\ h = [InitSession EXCEPT !.vol = v, !.vol_set = set]
    /\ fpos = 0
    /\ present = InitialPresent
    /\ disk = InitialDisk
    /\ inbuf = << >>
    /\ connected = TRUE
    /\ pc = "sv_start"
    /\ stack = <<"done">>
    /\ \E a \in VolArgs :
          /\ loc = [NoLocals EXCEPT !.op = "send_volume", !.sv_vol = a]
          /\ log = <<Ev("send_volume", <<a>>)>>

NextSendVolume ==
    \/ SendVolume \/ wait_char
    \/ RemoteSend(HandshakeBytes, MaxIn)
    \/ Disconnect

SpecSendVolume == InitSendVolume /\ [][NextSendVolume]_vars

(***************************************************************************)
(* SpecTransfer: a session of the commands 'V', 'O', 'R' (read_disk), 'W'  *)
(* (write_disk) and 'A' (send_abs) over files of every kind, with an H89   *)
(* that answers the commands it is sent (or does not answer: the read      *)
(* times out).                                                             *)
(***************************************************************************)
NextTransfer ==
    \/ command_execute({"R", "W", "A"})
    \/ get_volume({ORD.V})
    \/ open_image_file({"img", "short", "abs", "new", "empty"})
    \/ Handshake \/ Volume \/ SendVolume \/ ReadDisk \/ WriteDisk \/ SendAbs
    \/ Main
    \/ RemoteAnswer
    \/ Disconnect

SpecTransfer == Init /\ [][NextTransfer]_vars

(***************************************************************************)
(* SpecReceive: a session of the commands 'V', 'O', 'R' (read_disk) and    *)
(* 'S' (save_loader_to_disk), with an H89 that acknowledges in upper or in *)
(* lower case, or does not answer.                                         *)
(***************************************************************************)
NextReceive ==
    \/ command_execute({"R", "S"})
    \/ get_volume({ORD.R})
    \/ open_image_file({"new"})
    \/ Handshake \/ Volume \/ SendVolume \/ ReadDisk \/ SaveLoader
    \/ Main
    \/ RemoteReply
    \/ Disconnect

SpecReceive == Init /\ [][NextReceive]_vars

(***************************************************************************)
(* SpecLoader: a session of the commands 'L' (write_loader) and 'F'        *)
(* (write_absloader).  The H89 may send '?', 'F' or a NUL at any time.     *)
(***************************************************************************)
LoaderBytes == {QUESTION, ORD.F, 0}

NextLoader ==
    \/ command_execute({"L", "F"})
    \/ wait_char \/ WriteLoader \/ WriteAbsLoader
    \/ display_menu \/ exit_command \/ main_finally
    \/ RemoteSend(LoaderBytes, MaxIn)
    \/ Disconnect

SpecLoader == Init /\ [][NextLoader]_vars

(***************************************************************************)
(* SpecAbs: a session of the command 'A' (send_abs) over ABS files with    *)
(* headers of every kind: accepted and unknown magic numbers, load ranges  *)
(* that reach each region send_abs warns about, and a file shorter than a  *)
(* header.  Each file carries the two bytes 1, 2 after its header.         *)
(***************************************************************************)
AbsImages ==
    { AbsData,                                  \* 00FF 1400 0100 1400
      NotAbsData,                               \* 0000 1400 0100 1400
      <<255, 1, 240, 255, 32, 0, 0, 0, 1, 2>>,  \* 01FF FFF0 0020 0000
      <<255, 2, 240, 255, 32, 0, 0, 0, 1, 2>>,  \* 02FF FFF0 0020 0000
      <<255, 0, 0, 35, 0, 4, 0, 35, 1, 2>>,     \* 00FF 2300 0400 2300
      <<255, 0, 0, 48, 16, 0, 0, 48, 1, 2>>,    \* 00FF 3000 0010 3000
      <<255, 0, 0>> }

InitAbs ==
    /\ h = InitSession
    /\ fpos = 0
    /\ present = InitialPresent
    /\ disk \in {[InitialDisk EXCEPT !["abs"] = a] : a \in AbsImages}
    /\ inbuf = << >>
    /\ connected = TRUE
    /\ pc = "menu"
    /\ stack = << >>
    /\ loc = NoLocals
    /\ log = << >>

NextAbs ==
    \/ command_execute({"A"})
    \/ open_image_file({"abs", "new"})
    \/ wait_char \/ SendAbs
    \/ display_menu \/ exit_command \/ main_finally
    \/ RemoteAnswer
    \/ Disconnect

SpecAbs == InitAbs /\ [][NextAbs]_vars

(***************************************************************************)
(* SpecBaud: a session of the commands 'B' (set_baud_rate) and 'S'         *)
(* (save_loader_to_disk); a connection lost during 'S' makes main open the *)
(* port anew, at the default baud rate.                                    *)
(***************************************************************************)
BaudKeys == {ORD.zero, ORD.one, ORD.two, ORD.three, ORD.four, ORD.five,
             ORD.B}

NextBaud ==
    \/ set_baud_rate(BaudKeys)
    \/ command_execute({"S"})
    \/ Handshake \/ SendVolume \/ SaveLoader
    \/ Main
    \/ RemoteAnswer
    \/ Disconnect

SpecBaud == Init /\ [][NextBaud]_vars

(***************************************************************************)
(* SpecSettings: a session of the commands 'V' (with answers outside       *)
(* 0..255), 'I' (set_interleave), 'O', 'R' (read_disk, which takes the     *)
(* volume the H89 reports) and 'W' (write_disk, which takes the volume of  *)
(* the image and sends the interleave).                                    *)
(***************************************************************************)
SettingsVolInputs == {0 - 1, 300}
SettingsKeys == {ORD.zero, ORD.one, ORD.two, ORD.three, ORD.four}

NextSettings ==
    \/ command_execute({"R", "W"})
    \/ get_volume(SettingsVolInputs)
    \/ set_interleave(SettingsKeys)
    \/ open_image_file({"img", "new"})
    \/ Handshake \/ Volume \/ SendVolume \/ ReadDisk \/ WriteDisk
    \/ Main
    \/ RemoteAnswer
    \/ Disconnect

SpecSettings == Init /\ [][NextSettings]_vars

(***************************************************************************)
(* SpecFiles: a session of the commands 'O' (open_image_file, over files   *)
(* with data, an empty file and a name that does not exist) and 'R'        *)
(* (read_disk), which may end by 'X', by an interrupt or by the loss of    *)
(* the connection.                                                         *)
(***************************************************************************)
NextFiles ==
    \/ command_execute({"R"})
    \/ open_image_file({"img", "new", "empty"})
    \/ Handshake \/ Volume \/ ReadDisk
    \/ Main
    \/ keyboard_interrupt
    \/ RemoteAnswer
    \/ Disconnect

SpecFiles == Init /\ [][NextFiles]_vars

(***************************************************************************)
(* SpecFirstRead: the first command of a session is read_disk, after       *)
(* open_image_file; nothing has set the volume of the session before it,   *)
(* and the run ends with the command.                                      *)
(***************************************************************************)
NextFirstRead ==
    \/ command_execute({"R"})
    \/ open_image_file({"new"})
    \/ Handshake \/ Volume \/ ReadDisk
    \/ exit_command \/ select_port \/ main_finally
    \/ RemoteAnswer
    \/ Disconnect

SpecFirstRead == Init /\ [][NextFirstRead]_vars

(***************************************************************************)
(* SpecSecondStage: one run of h8clxfer's load_second_stage_bootloader,    *)
(* with an H89 that may send '?' or a NUL at any time.                     *)
(***************************************************************************)
InitSecondStage ==
    /\ h = InitSession
    /\ fpos = 0
    /\ present = InitialPresent
    /\ disk = InitialDisk
    /\ inbuf = << >>
    /\ connected = TRUE
    /\ pc = "ls_start"
    /\ stack = << >>
    /\ loc = NoLocals
    /\ log = << >>

NextSecondStage ==
    \/ ls_start \/ ls_read \/ ls_loop \/ ls_result
    \/ RemoteSend({QUESTION, 0}, MaxIn)
    \/ Disconnect

SpecSecondStage == InitSecondStage /\ [][NextSecondStage]_vars

(***************************************************************************)
(* Reading the log                                                         *)
(***************************************************************************)
\* Index of the last entry of kind name (0: none).
LastCall(name) ==
    LET S == {k \in 1..Len(log) : log[k][1] = name}
    IN  IF S = {} THEN 0 ELSE CHOOSE n \in S : \A j \in S : j <= n

\* Index of the first entry e (0: none).
FirstIndex(e) ==
    LET S == {k \in 1..Len(log) : log[k] = e}
    IN  IF S = {} THEN 0 ELSE CHOOSE n \in S : \A j \in S : n <= j

\* Entries j..j+3 are one round {write 'C', read one byte, wait_char('C')},
\* the wait having returned.
RoundAt(j) ==
    /\ j + 3 <= Len(log)
    /\ log[j] = Ev("write", <<ORD.C>>)
    /\ log[j + 1][1] = "read" /\ Len(log[j + 1][2]) = 1
    /\ log[j + 2] = Ev("wait", <<ORD.C>>)
    /\ log[j + 3][1] \in {"ack", "lost"}

\* The command in progress has read from or written to the channel.
ChannelIO == \E k \in 1..Len(log) : log[k][1] \in {"write", "read", "wait"}

(***************************************************************************)
(* C1.  While the connection is not lost, wait_char returns only on a byte *)
(* whose upper-case form is the upper-case form of the expected letter,    *)
(* and at that return char_of_wait is that byte as received; a timeout or  *)
(* a byte that does not match leaves the program in wait_char.             *)
(***************************************************************************)
C1_WaitEndsOnlyOnMatch ==
    [][(pc = "wait_char" /\ connected /\ pc' # "wait_char")
        => /\ inbuf # << >>
           /\ Upper(Head(inbuf)) = Upper(log[LastCall("wait")][2][1])
           /\ h'.char_of_wait = <<Head(inbuf)>>]_vars

\* wait_char('V') returned on a lower-case 'v', kept as received.
C1_Witness ==
    /\ pc = "sv_done"
    /\ log[Len(log)] = Ev("ack", <<ORD.v>>)
    /\ h.char_of_wait = <<ORD.v>>

(***************************************************************************)
(* C2.  If a byte that matches the expected letter is buffered while the   *)
(* program is in wait_char on a live connection, wait_char returns; the    *)
(* bytes it reads are taken from the head of the buffer one at a time, the *)
(* byte that ends the wait is the first that matches, and what follows it  *)
(* stays buffered.                                                         *)
(***************************************************************************)
MatchBuffered ==
    /\ pc = "wait_char"
    /\ connected
    /\ \E k \in 1..Len(inbuf) :
          Upper(inbuf[k]) = Upper(log[LastCall("wait")][2][1])

C2_WaitReturnsOnFirstMatch ==
    /\ MatchBuffered ~> (pc # "wait_char")
    /\ [][(pc = "wait_char" /\ connected /\ pc' # "wait_char")
           => /\ inbuf # << >>
              /\ Upper(Head(inbuf)) = Upper(log[LastCall("wait")][2][1])
              /\ inbuf' = Tail(inbuf)]_vars
    /\ [][(pc = "wait_char" /\ pc' = "wait_char" /\ Len(inbuf') < Len(inbuf))
           => /\ inbuf' = Tail(inbuf)
              /\ Upper(Head(inbuf)) # Upper(log[LastCall("wait")][2][1])]_vars

\* wait_char('V') returned on a match and left the byte behind it buffered.
C2_Witness ==
    /\ pc = "sv_done"
    /\ log[Len(log)][1] = "ack"
    /\ inbuf # << >>

(***************************************************************************)
(* C3.  When is_h89ldr2_alive returns it has written the one byte 'A' and  *)
(* done one read, and its result is TRUE exactly if that read delivered a  *)
(* byte (of any value).                                                    *)
(***************************************************************************)
C3_ProbeOneWriteOneRead ==
    pc \in {"sl_alive", "rd_alive"} =>
        LET k == LastCall("is_h89ldr2_alive")
        IN  /\ k > 0
            /\ Len(log) = k + 2
            /\ log[k + 1] = Ev("write", <<ORD.A>>)
            /\ log[k + 2][1] = "read"
            /\ loc.retval = (log[k + 2][2] # << >>)

\* The probe was answered by 'S', and returned TRUE.
C3_Witness ==
    /\ pc = "sl_alive"
    /\ loc.retval
    /\ log[Len(log)] = Ev("read", <<ORD.S>>)

(***************************************************************************)
(* C4.  send_volume(v), for v in 0..255 and whatever the session volume,   *)
(* has on return written 'V' then v and called wait_char('V') once.        *)
(***************************************************************************)
C4_SendVolumeWritesArgument ==
    pc = "sl_save" =>
        LET k == LastCall("send_volume")
            v == log[k][2][1]
        IN  v \in 0..255 =>
              /\ Len(log) = k + 5
              /\ log[k + 1] = Ev("write", <<ORD.V>>)
              /\ log[k + 2] = Ev("write", <<v>>)
              /\ log[k + 3] = Ev("wait", <<ORD.V>>)
              /\ log[k + 4][1] \in {"ack", "lost"}

(***************************************************************************)
(* C5.  As claimed: send_volume writes nothing and waits for nothing when  *)
(* its argument is outside 0..255, and when it is 0 with no session volume *)
(* set.                                                                    *)
(***************************************************************************)
C5_NoOpWhenZeroAndUnset ==
    pc = "done" =>
        LET a == log[1][2][1]
        IN  (a \notin 0..255 \/ (a = 0 /\ ~h.vol_set)) => ~ChannelIO

(***************************************************************************)
(* C5, amended.  send_volume writes nothing and waits for nothing when its *)
(* argument is outside 0..255; when it is 0 with no session volume set it  *)
(* writes 'V', 0 and calls wait_char('V').                                 *)
(***************************************************************************)
C5_NoOpWhenOutOfRange ==
    pc = "done" =>
        LET a == log[1][2][1]
        IN  /\ a \notin 0..255 => ~ChannelIO
            /\ (a = 0 /\ ~h.vol_set) =>
                  /\ Len(log) >= 4
                  /\ log[2] = Ev("write", <<ORD.V>>)
                  /\ log[3] = Ev("write", <<0>>)
                  /\ log[4] = Ev("wait", <<ORD.V>>)

\* send_volume(256) returned with nothing done on the channel.
C5_Witness ==
    /\ pc = "done"
    /\ log[1] = Ev("send_volume", <<256>>)
    /\ ~ChannelIO

(***************************************************************************)
(* C6.  As claimed: get_disk_volume, whenever it returns, has done exactly *)
(* two rounds {write 'C', read one byte, wait_char('C')} and the session   *)
(* volume is the byte read in the second.                                  *)
(***************************************************************************)
TwoRounds ==
    LET k == LastCall("get_disk_volume")
    IN  /\ Len(log) = k + 8
        /\ RoundAt(k + 1)
        /\ RoundAt(k + 5)
        /\ h.vol = log[k + 6][2][1]

C6_AlwaysTwoRounds == pc = "rd_gdv" => TwoRounds

(***************************************************************************)
(* C6, amended.  Whenever get_disk_volume returns success it has done      *)
(* exactly two rounds {write 'C', read one byte, wait_char('C')} and the   *)
(* session volume is the byte read in the second.                          *)
(***************************************************************************)
C6_TwoRoundsOnSuccess == (pc = "rd_gdv" /\ loc.retval) => TwoRounds

\* Success, the two rounds having read different volumes.
C6_Witness ==
    /\ pc = "rd_gdv"
    /\ loc.retval
    /\ log[LastCall("get_disk_volume") + 2][2] # <<h.vol>>

(***************************************************************************)
(* C7.  When the volume read of a round of get_disk_volume delivers no     *)
(* byte, get_disk_volume returns failure at once: the step that reads      *)
(* nothing is its last, with no wait_char and no further 'C'.              *)
(***************************************************************************)
C7_NoByteFailsAtOnce ==
    [][(pc = "gdv_read" /\ connected /\ inbuf = << >> /\ pc' # "gdv_read")
        => /\ pc' = "rd_gdv"
           /\ ~loc'.retval
           /\ log' = Append(log, Ev("read", << >>))]_vars

\* Failure in the second round, after one whole round.
C7_Witness ==
    /\ pc = "rd_gdv"
    /\ ~loc.retval
    /\ Len(log) = LastCall("get_disk_volume") + 6
    /\ log[Len(log)] = Ev("read", << >>)

(***************************************************************************)
(* C8.  In read_disk without override, an 'R' is written only after        *)
(* get_disk_volume succeeded and the byte read for 'T' is the session      *)
(* volume, which the second 'C' round set; as long as no 'R' was written   *)
(* the image file holds no byte.  With override neither 'C' nor 'T' is     *)
(* written.                                                                *)
(***************************************************************************)
RWritten == FirstIndex(Ev("write", <<ORD.R>>)) > 0

C8_ReadAfterVolumeCheck ==
    loc.op = "R" =>
        /\ (~h.override /\ RWritten) =>
              LET g == LastCall("get_disk_volume")
                  t == LastCall("read_track_volume_problem")
              IN  /\ g > 0
                  /\ RoundAt(g + 1)
                  /\ RoundAt(g + 5)
                  /\ log[g + 6] = Ev("read", <<h.vol>>)
                  /\ t = g + 9
                  /\ log[t + 1] = Ev("write", <<ORD.T>>)
                  /\ log[t + 2] = Ev("read", <<h.vol>>)
                  /\ log[t + 3] = Ev("wait", <<ORD.T>>)
                  /\ FirstIndex(Ev("write", <<ORD.R>>)) > t + 3
        /\ (~RWritten /\ h.fp # "None" /\ h.fp_dir = "from h89") =>
              disk[h.fp] = << >>
        /\ h.override =>
              /\ FirstIndex(Ev("write", <<ORD.C>>)) = 0
              /\ FirstIndex(Ev("write", <<ORD.T>>)) = 0

\* Without override, the first track is being requested.
C8_Witness ==
    /\ loc.op = "R"
    /\ ~h.override
    /\ pc = "rd_data"

(***************************************************************************)
(* C9.  A command that has done anything at all was given a file of its    *)
(* direction: read_disk a file open 'from h89', write_disk and send_abs a  *)
(* file open 'to h89'; and an open 'to h89' file holds what it held before *)
(* the session.                                                            *)
(***************************************************************************)
C9_DirectionBeforeIO ==
    /\ (loc.op = "R" /\ log # << >>) =>
          /\ h.fp_dir = "from h89"
          /\ h.fp # "None" \/ pc \in {"finally", "exited"}
    /\ (loc.op \in {"W", "A"} /\ log # << >>) =>
          /\ h.fp_dir = "to h89"
          /\ h.fp # "None"
    /\ (h.fp # "None" /\ h.fp_dir = "to h89") =>
          /\ h.fp \in present
          /\ disk[h.fp] = InitialDisk[h.fp]

\* read_disk returned at once: the open file is a 'to h89' file.
C9_Witness ==
    /\ pc = "done"
    /\ loc.op = "R"
    /\ h.fp = "img"
    /\ h.fp_dir = "to h89"
    /\ log = << >>

(***************************************************************************)
(* C10.  When read_disk has gone through all tracks the image file holds   *)
(* num_tracks * track_size bytes.                                          *)
(***************************************************************************)
C10_WholeImage ==
    pc = "rd_close" => Len(disk[h.fp]) = num_tracks * track_size

(***************************************************************************)
(* C11.  After a completed read_disk run, read_errors equals the number of *)
(* tracks of the run that were acknowledged with a lower-case 'r'.         *)
(***************************************************************************)
C11_ErrorsCountLowerAcks ==
    pc = "rd_close"
    => h.read_errors
         = Cardinality({k \in 1..Len(log) : log[k] = Ev("ack", <<ORD.r>>)})

C13_ReportIffLowerAck ==
    \A k \in 1..Len(log) :
       log[k][1] = "check_read_error"
       => ((log[k][2] = <<ORD.r>>)
           <=> (k < Len(log) /\ log[k + 1][1] = "read error detected"))

(***************************************************************************)
(* C14.  A read_disk that has received, acknowledged and written every     *)
(* track returns to the menu loop: the program does not leave through an   *)
(* exception or an exit.                                                   *)
(***************************************************************************)
AllTracksWritten ==
    \E k \in 1..Len(log) :
       log[k][1] = "fp.write" /\ log[k][2][1] = num_tracks - 1

C14_CompletedReadReturns ==
    AllTracksWritten => pc \notin {"finally", "exited"}

(***************************************************************************)
(* C15.  write_disk reads the volume byte of the image (offset 0x900) only *)
(* when override is off, and then the byte it sends after 'V' is that      *)
(* byte; with override on it never reads the byte of the image, the byte   *)
(* it sends after 'V' is the volume of the session, and the volume of the  *)
(* session does not change during the command.                             *)
(***************************************************************************)
VolumeAnnounced(v) ==
    LET j == FirstIndex(Ev("write", <<ORD.V>>))
    IN  j # 0 /\ j < Len(log)
        => log[j + 1] \in {Ev("write", <<v>>), Ev("SerialException", << >>)}

C15_ImageVolumeOnlyWithoutOverride ==
    /\ [](loc.op = "W" /\ h.override
          => /\ LastCall("get_image_volume") = 0
             /\ VolumeAnnounced(h.vol))
    /\ [](loc.op = "W" /\ ~h.override /\ ChannelIO
          => /\ log[1] = Ev("get_image_volume", ImageVolumeByte(disk[h.fp]))
             /\ ImageVolumeByte(disk[h.fp]) # << >>
                => VolumeAnnounced(ImageVolumeByte(disk[h.fp])[1]))
    /\ [][loc.op = "W" /\ h.override => h'.vol = h.vol]_vars

\* With override on, the volume of the session was sent for an image whose
\* own volume byte is another one.
C15_Witness ==
    /\ loc.op = "W"
    /\ h.override
    /\ pc = "wd_il"
    /\ ImageVolumeByte(disk[h.fp]) # <<h.vol>>
    /\ \E j \in 1..Len(log) - 1 :
          log[j] = Ev("write", <<ORD.V>>) /\ log[j + 1] = Ev("write", <<h.vol>>)

(***************************************************************************)
(* C16.  A write_disk that ran to "Disk Write Complete" has written and    *)
(* waited, in this order: 'V', the volume, wait 'V'; 'I', interleave - 1,  *)
(* wait 'I'; 'W'; and for each track in file order 'W', the track_size     *)
(* bytes of the track, wait 'W'.  Each wait returns before the next step,  *)
(* and nothing is written after a wait that ended without its              *)
(* acknowledgment.                                                         *)
(***************************************************************************)
IsChannelStep(e) == e[1] \in {"write", "wait"}

\* Bytes t * track_size + 1 .. (t + 1) * track_size of the image, as far as
\* the image goes.
ImageTrack(t) ==
    LET d == disk[h.fp]
        hi == (t + 1) * track_size
    IN  SubSeq(d, t * track_size + 1, IF hi <= Len(d) THEN hi ELSE Len(d))

TrackSteps ==
    [k \in 1..3 * num_tracks |->
        LET t == (k - 1) \div 3
        IN  CASE (k - 1) % 3 = 0 -> Ev("write", <<ORD.W>>)
              [] (k - 1) % 3 = 1 -> Ev("write", ImageTrack(t))
              [] OTHER -> Ev("wait", <<ORD.W>>)]

WriteDiskSteps ==
    <<Ev("write", <<ORD.V>>), Ev("write", <<h.vol>>), Ev("wait", <<ORD.V>>),
      Ev("write", <<ORD.I>>), Ev("write", <<h.interleave_factor - 1>>),
      Ev("wait", <<ORD.I>>), Ev("write", <<ORD.W>>)>> \o TrackSteps

C16_WriteDiskSequence ==
    loc.op = "W"
    => /\ LastCall("Disk Write Complete") # 0
          => SelectSeq(log, IsChannelStep) = WriteDiskSteps
       /\ \A k \in 1..Len(log) - 1 :
             log[k][1] = "wait"
             => /\ log[k + 1][1] \in {"ack", "lost"}
                /\ log[k + 1][1] = "lost"
                   => \A m \in k + 2..Len(log) : log[m][1] # "write"

\* The whole image was sent and every track acknowledged.
C16_Witness ==
    /\ loc.op = "W"
    /\ LastCall("Disk Write Complete") # 0
    /\ Cardinality({k \in 1..Len(log) : log[k] = Ev("ack", <<ORD.W>>)})
         = num_tracks
    /\ LastCall("lost") = 0

(***************************************************************************)
(* C17.  write_disk sends no more than the whole tracks the image holds:   *)
(* where the image gives fewer than track_size bytes for a track, the run  *)
(* ends there, with neither the 'W' of that track nor any byte of it nor   *)
(* any later track written to the channel.                                 *)
(***************************************************************************)
FullTracks == Len(disk[h.fp]) \div track_size

C17_ShortReadAborts ==
    loc.op = "W" /\ h.fp # "None"
    => /\ Len(SelectSeq(log, IsChannelStep)) <= 7 + 3 * FullTracks
       /\ LastCall("Short read") # 0
          => /\ LastCall("Short read") = Len(log)
             /\ pc \in {"finally", "exited"}
             /\ SelectSeq(log, IsChannelStep)
                  = SubSeq(WriteDiskSteps, 1, 7 + 3 * FullTracks)

\* The image ran out after a first track was sent and acknowledged.
C17_Witness ==
    /\ loc.op = "W"
    /\ LastCall("Short read") # 0
    /\ loc.track > 0
    /\ \E k \in 1..Len(log) : log[k] = Ev("ack", <<ORD.W>>)

(***************************************************************************)
(* C18.  Once wait_char has ended on a lost connection, the command it ran *)
(* in does nothing more: no write, no wait, no report of success, no write *)
(* to the file; at most the exception of the lost connection follows.      *)
(***************************************************************************)
C18_LostWaitAbortsOperation ==
    \A k \in 1..Len(log) :
       log[k][1] = "lost"
       => \A m \in k + 1..Len(log) : log[m][1] = "SerialException"

(***************************************************************************)
(* C19.  A short read of the image during write_disk ends the command      *)
(* only: the program goes back to the menu loop and does not exit.         *)
(***************************************************************************)
C19_ShortReadKeepsSession ==
    LastCall("Short read") # 0 => pc \notin {"finally", "exited"}

(***************************************************************************)
(* C20.  When the read of is_h89ldr2_alive delivers no byte, read_disk and *)
(* save_loader_to_disk have written the probe 'A' and nothing else, write  *)
(* nothing more, leave the session and the files as they are, and return   *)
(* to the menu.                                                            *)
(***************************************************************************)
AliveFailed ==
    /\ loc.op \in {"R", "S"}
    /\ Len(log) >= 3
    /\ log[2] = Ev("write", <<ORD.A>>)
    /\ log[3] = Ev("read", << >>)

C20_NoAnswerAborts ==
    /\ [](AliveFailed => Len(log) = 3 /\ pc \in {"rd_alive", "sl_alive", "done"})
    /\ [][AliveFailed \/ AliveFailed'
          => h' = h /\ disk' = disk /\ present' = present /\ fpos' = fpos]_vars
    /\ [][AliveFailed /\ pc' # pc => pc' \in {"done", "menu"}]_vars

\* read_disk, with a file open to receive into, is back at the menu loop
\* after a probe that got no answer.
C20_Witness ==
    /\ AliveFailed
    /\ loc.op = "R"
    /\ h.fp = "new"
    /\ pc = "done"

(***************************************************************************)
(* C21.  write_loader goes near the channel only with a file of ldr_size   *)
(* bytes and write_absloader only with one of absldr_size bytes: a file of *)
(* another size is reported and the command returns, with nothing read     *)
(* from and nothing written to the channel.                                *)
(***************************************************************************)
LoaderIO ==
    \E k \in 1..Len(log) : log[k][1] \in {"read", "write", "wait", "flushed"}

C21_SizeCheckedFirst ==
    /\ loc.op = "L"
       => /\ LoaderIO => log[1] = Ev("Sending", <<ldr_size>>)
          /\ LastCall("Error: size") # 0 => Len(log) = 1 /\ pc = "done"
    /\ loc.op = "F"
       => /\ LoaderIO => Len(loc.buffer) = absldr_size
          /\ LastCall("ERROR: Size") # 0 => Len(log) = 1 /\ pc = "done"

\* A loader file one byte too long was refused while bytes of the H89 were
\* waiting to be read.
C21_Witness ==
    /\ loc.op = "L"
    /\ log = <<Ev("Error: size", <<ldr_size + 1>>)>>
    /\ inbuf # << >>
    /\ pc = "done"

(***************************************************************************)
(* C22.  write_loader sends the file in single-byte writes in reverse      *)
(* order: write number k (from 1) carries byte ldr_size + 1 - k of the     *)
(* file, and when the upload is through there were exactly ldr_size of     *)
(* them.                                                                   *)
(***************************************************************************)
IsWrite(e) == e[1] = "write"

C22_ReverseOrderUpload ==
    loc.op = "L"
    => LET W == SelectSeq(log, IsWrite)
       IN  /\ \A k \in 1..Len(W) :
                 k <= ldr_size => W[k] = Ev("write", <<loc.buffer[ldr_size + 1 - k]>>)
           /\ pc \in {"wl_check", "wl_send"} => Len(W) = loc.i
           /\ pc = "wl_pad" => Len(W) = ldr_size

\* The upload is through and no byte of the H89 was read on the way.
C22_Witness ==
    /\ loc.op = "L"
    /\ pc = "wl_pad"
    /\ ~\E k \in 1..Len(log) : log[k][1] \in {"read", "flushed"}

(***************************************************************************)
(* C23 as stated: when a '?' is among the unread bytes at the check that   *)
(* precedes a byte of the loader, the upload stops there.                  *)
(***************************************************************************)
C23_AnyQuestionStops ==
    [][(/\ pc = "wl_check" /\ loc.i < Len(loc.buffer) /\ connected
        /\ \E j \in 1..Len(inbuf) : inbuf[j] = QUESTION
        /\ pc' # pc)
       => pc' = "done"]_vars

(***************************************************************************)
(* C23, amended.  The check before a byte of the loader reads one byte if  *)
(* any is waiting: if that byte is '?', write_loader reports "Already      *)
(* loaded?" and returns to the menu, with as many bytes of the loader sent *)
(* as were sent before the check and nothing written after; any other      *)
(* byte is dropped and the upload goes on.                                 *)
(***************************************************************************)
C23_FirstUnreadQuestionStops ==
    /\ [][(/\ pc = "wl_check" /\ loc.i < Len(loc.buffer) /\ connected
           /\ inbuf # << >> /\ pc' # pc)
          => IF Head(inbuf) = QUESTION
             THEN /\ pc' = "done"
                  /\ log' = log \o <<Ev("read", <<QUESTION>>),
                                     Ev("Already loaded?", <<loc.i>>)>>
             ELSE pc' = "wl_send"]_vars
    /\ [](LastCall("Already loaded?") # 0
          => /\ LastCall("Already loaded?") = Len(log)
             /\ pc = "done"
             /\ Len(SelectSeq(log, IsWrite)) = loc.i
             /\ loc.i < ldr_size)

\* The upload stopped on a '?' after a first byte, and before the last.
C23_Witness ==
    /\ LastCall("Already loaded?") # 0
    /\ loc.i > 0
    /\ loc.i < ldr_size

(***************************************************************************)
(* C24.  write_loader reports "H89 Loader active and ready." only after    *)
(* the '?' it waits for, following the padding and the 'A', has come.      *)
(***************************************************************************)
C24_ActiveOnlyAfterAck ==
    \A k \in 1..Len(log) :
       log[k][1] = "H89 Loader active"
       => /\ k > 4
          /\ log[k - 4] = Ev("write", [j \in 1..PAD_LEN |-> 0])
          /\ log[k - 3] = Ev("write", <<ORD.A>>)
          /\ log[k - 2] = Ev("wait", <<QUESTION>>)
          /\ log[k - 1] = Ev("ack", <<QUESTION>>)


(***************************************************************************)
(* send_abs: helpers of C25..C28                                           *)
(***************************************************************************)
\* The magic number of the open file.
FileMagic == LE16(disk[h.fp], 0)

\* send_abs has an open file to send, long enough to hold a header.
AbsOpened ==
    /\ loc.op = "A"
    /\ h.fp # "None"
    /\ h.fp_dir = "to h89"
    /\ Len(disk[h.fp]) >= 8

IsDiagnostic(e) ==
    e[1] \in {"WARNING: beyond 64K", "WARNING: overwrites ABSLDR",
              "NOTE: overwrites BOOTSTRP", "NOTE: overwrites QUARTERSHIM",
              "NOTE: multipart", "WARNING: entry outside"}

IsWarning(e) ==
    e[1] \in {"WARNING: beyond 64K", "WARNING: overwrites ABSLDR",
              "WARNING: entry outside"}

\* The connection was lost while the command ran.
LinkFailed ==
    \E k \in 1..Len(log) : log[k][1] \in {"SerialException", "lost"}

IsAbsStep(e) ==
    e[1] \in {"write", "read", "wait", "ack", "All good", "Confirmed"}

(***************************************************************************)
(* C25 as stated: for the header FF 00 00 14 00 01 00 14 send_abs parses   *)
(* magic 00FF, load address 1400, length 0100, entry 1400, computes the    *)
(* end address 14FF, prints the multipart note and prints no warning.      *)
(***************************************************************************)
C25_NoWarningAt14FF ==
    LET j == LastCall("header")
    IN  (AbsOpened /\ j # 0
         /\ SubSeq(disk[h.fp], 1, 8) = <<255, 0, 0, 20, 0, 1, 0, 20>>)
        => /\ log[j] = Ev("header", <<255, 5120, 256, 5120>>)
           /\ log[j + 1] = Ev("endaddr", <<5375>>)
           /\ \E k \in 1..Len(log) : log[k] = Ev("NOTE: multipart", << >>)
           /\ \A k \in 1..Len(log) : ~IsWarning(log[k])

(***************************************************************************)
(* C25, amended: for that header send_abs parses magic 00FF, load address  *)
(* 1400, length 0100, entry 1400 and computes the end address 1500 (load   *)
(* address + length); it prints the warning that the program overwrites    *)
(* ABSLDR and then the multipart note, and no other warning or note.       *)
(***************************************************************************)
C25_WindowWarningAt1500 ==
    LET j == LastCall("header")
    IN  (AbsOpened /\ j # 0
         /\ SubSeq(disk[h.fp], 1, 8) = <<255, 0, 0, 20, 0, 1, 0, 20>>)
        => /\ log[j] = Ev("header", <<255, 5120, 256, 5120>>)
           /\ log[j + 1] = Ev("endaddr", <<5376>>)
           /\ SelectSeq(log, IsDiagnostic)
                 = <<Ev("WARNING: overwrites ABSLDR", << >>),
                     Ev("NOTE: multipart", << >>)>>

\* The file with that header went to the H89 and was confirmed.
C25_Witness ==
    /\ AbsOpened
    /\ pc = "done"
    /\ SubSeq(disk[h.fp], 1, 8) = <<255, 0, 0, 20, 0, 1, 0, 20>>
    /\ LastCall("header") # 0
    /\ LastCall("Confirmed") = Len(log)

(***************************************************************************)
(* C26.  While send_abs runs on a file whose magic number is neither 00FF  *)
(* nor 01FF, nothing was written to or read from the channel, whatever the *)
(* other header fields are and whatever diagnostics they caused; the       *)
(* command ends with the report that the file is not an ABS file.          *)
(***************************************************************************)
C26_BadMagicNoTransmission ==
    (AbsOpened /\ FileMagic \notin {255, 511})
    => /\ ~ChannelIO
       /\ pc \in {"sa_start", "done"}
       /\ pc = "done" => log[Len(log)] = Ev("not an ABS file", << >>)

\* A file of magic 02FF whose header draws two warnings was turned down.
C26_Witness ==
    /\ AbsOpened
    /\ pc = "done"
    /\ FileMagic = 767
    /\ \E k \in 1..Len(log) : log[k] = Ev("WARNING: beyond 64K", << >>)
    /\ \E k \in 1..Len(log) : log[k] = Ev("WARNING: entry outside", << >>)
    /\ log[Len(log)] = Ev("not an ABS file", << >>)

(***************************************************************************)
(* C27.  When send_abs has ended on a file with an accepted magic number   *)
(* and the connection held, then, whichever diagnostics were printed, its  *)
(* steps were: write 'B', wait_char('B') and its ack, one write, again     *)
(* wait_char('B') and its ack, the confirmation; no bounded read of the    *)
(* channel took place.  Whenever the confirmation is printed, the two      *)
(* writes and the two waits came before it in that order.                  *)
(***************************************************************************)
C27_DiagnosticsDoNotStopTransfer ==
    LET S == SelectSeq(log, IsAbsStep)
    IN  /\ (AbsOpened /\ pc = "done" /\ FileMagic \in {255, 511}
            /\ ~LinkFailed)
           => /\ Len(S) = 8
              /\ S[1] = Ev("write", <<ORD.B>>)
              /\ S[2] = Ev("wait", <<ORD.B>>)
              /\ S[3][1] = "ack"
              /\ S[4][1] = "All good"
              /\ S[5][1] = "write"
              /\ S[6] = Ev("wait", <<ORD.B>>)
              /\ S[7][1] = "ack"
              /\ S[8][1] = "Confirmed"
        /\ (loc.op = "A" /\ LastCall("Confirmed") # 0)
           => LET T == SelectSeq(log, IsChannelStep)
              IN  /\ Len(T) = 4
                  /\ T[1] = Ev("write", <<ORD.B>>)
                  /\ T[2] = Ev("wait", <<ORD.B>>)
                  /\ T[3][1] = "write"
                  /\ T[4] = Ev("wait", <<ORD.B>>)
                  /\ LastCall("Confirmed") = Len(log)
                  /\ ~\E k \in 1..Len(log) : log[k][1] = "read"

\* A file whose header drew the warnings for 64K and for the entry point
\* was sent and confirmed.
C27_Witness ==
    /\ AbsOpened
    /\ pc = "done"
    /\ ~LinkFailed
    /\ \E k \in 1..Len(log) : log[k] = Ev("WARNING: beyond 64K", << >>)
    /\ \E k \in 1..Len(log) : log[k] = Ev("WARNING: entry outside", << >>)
    /\ LastCall("Confirmed") = Len(log)

(***************************************************************************)
(* C28 as stated: what send_abs writes between its two waits is the file   *)
(* from offset 8 to its end.                                               *)
(***************************************************************************)
C28_StreamFromOffset8 ==
    (loc.op = "A" /\ LastCall("All good") # 0)
    => \A k \in 1..Len(log) :
          (k > LastCall("All good") /\ log[k][1] = "write")
          => log[k][2] = SubSeq(disk[h.fp], 9, Len(disk[h.fp]))

(***************************************************************************)
(* C28, amended: what send_abs writes between its two waits is the whole   *)
(* file from offset 0, its 8-byte header included, in one write; the file  *)
(* position is then the end of the file.                                   *)
(***************************************************************************)
C28_WholeFileStream ==
    (loc.op = "A" /\ LastCall("All good") # 0)
    => LET a == LastCall("All good")
       IN  /\ \A k \in 1..Len(log) :
                 (k > a /\ log[k][1] = "write")
                 => k = a + 1 /\ log[k][2] = disk[h.fp]
           /\ a < Len(log) /\ log[a + 1][1] = "write"
              => /\ log[a + 2] = Ev("wait", <<ORD.B>>)
                 /\ fpos = Len(disk[h.fp])

\* The file was written and the second wait is in progress.
C28_Witness ==
    /\ loc.op = "A"
    /\ pc = "wait_char"
    /\ LastCall("All good") # 0
    /\ log[Len(log) - 1][1] = "write"
    /\ Len(log[Len(log) - 1][2]) > 8


(***************************************************************************)
(* C29.  The baud rate of the channel is always one of 1200, 2400, 4800,   *)
(* 9600.  set_baud_rate with one of the keys '1'..'4' sets it to one of    *)
(* them and reports the new rate; with any other key it leaves the session *)
(* as it was and reports that the key is not valid and that the rate       *)
(* remains.                                                                *)
(***************************************************************************)
C29_BaudOnlyFromRates ==
    /\ [](h.baudrate \in {1200, 2400, 4800, 9600})
    /\ [][(pc = "menu" /\ loc'.op = "B")
          => LET c == log'[1][2][1]
             IN  IF c \in {ORD.one, ORD.two, ORD.three, ORD.four}
                 THEN /\ h' = [h EXCEPT !.baudrate = h'.baudrate]
                      /\ h'.baudrate \in {1200, 2400, 4800, 9600}
                      /\ log'[2] = Ev("Baud rate updated", <<h'.baudrate>>)
                 ELSE /\ h' = h
                      /\ log'[2][1] = "is not a valid number"
                      /\ log'[3] = Ev("Baud rate remains", <<h.baudrate>>)]_vars

\* The key '5' was turned down while the rate was 2400.
C29_Witness ==
    /\ loc.op = "B"
    /\ pc = "done"
    /\ log[1] = Ev("get_key", <<ORD.five>>)
    /\ log[2][1] = "is not a valid number"
    /\ h.baudrate = 2400

(***************************************************************************)
(* C30.  In every state the volume number is in 0..255 and the interleave  *)
(* factor is 1, 2 or 3; the byte write_disk sends after 'I' is the factor  *)
(* less one, so 0, 1 or 2.  A volume typed at the prompt becomes its low 8 *)
(* bits, and a key that set_interleave does not accept leaves the session  *)
(* as it was.                                                              *)
(***************************************************************************)
C30_SettingsInRange ==
    /\ [](/\ h.vol \in 0..255
          /\ h.interleave_factor \in {1, 2, 3}
          /\ LET j == FirstIndex(Ev("write", <<ORD.I>>))
             IN  (loc.op = "W" /\ j # 0 /\ j < Len(log)
                  /\ log[j + 1][1] = "write")
                 => /\ log[j + 1][2] = <<h.interleave_factor - 1>>
                    /\ log[j + 1][2][1] \in {0, 1, 2})
    /\ [][(pc = "menu" /\ pc' = "menu" /\ h'.vol # h.vol)
          => h'.vol \in {255, 300 - 256}]_vars
    /\ [][(loc'.op = "I" /\ pc' = "set_interleave") => h' = h]_vars

\* write_disk sent the interleave byte 2 while the volume was the 255 that
\* the answer -1 was masked to.
C30_Witness ==
    /\ loc.op = "W"
    /\ h.vol = 255
    /\ h.interleave_factor = 3
    /\ \E j \in 1..Len(log) - 1 :
          /\ log[j] = Ev("write", <<ORD.I>>)
          /\ log[j + 1] = Ev("write", <<2>>)


(***************************************************************************)
(* C31.  Whenever a file is open (until the program has ended and closed   *)
(* it), its direction is 'to h89' and its mode   *)
(* 'rb', or its direction is 'from h89' and its mode 'wb'.  A call of      *)
(* open_image_file that opens a file that exists with data opens it 'rb',  *)
(* 'to h89', and changes no file; one that opens any other name opens it   *)
(* 'wb', 'from h89', as an empty file.  No step changes or removes a file  *)
(* that is open 'rb', a file with data changes only by read_disk's write   *)
(* through a 'wb' handle, and the files that had data before the session   *)
(* keep it.                                                                *)
(***************************************************************************)
C31_DirectionDecidedAtOpen ==
    /\ []((h.fp # "None" /\ pc # "exited")
          => \/ h.fp_dir = "to h89" /\ h.fp_mode = "rb"
             \/ h.fp_dir = "from h89" /\ h.fp_mode = "wb")
    /\ [](\A f \in InitialPresent :
             Len(InitialDisk[f]) > 0
             => f \in present /\ disk[f] = InitialDisk[f])
    /\ [][(/\ pc = "menu" /\ pc' = "menu" /\ h'.fp # "None"
           /\ <<h.fp, h.fp_dir, fpos, present, disk>>
                 # <<h'.fp, h'.fp_dir, fpos', present', disk'>>)
          => IF h'.fp \in present /\ Len(disk[h'.fp]) > 0
             THEN /\ h'.fp_dir = "to h89" /\ h'.fp_mode = "rb"
                  /\ disk' = disk /\ present' = present
             ELSE /\ h'.fp_dir = "from h89" /\ h'.fp_mode = "wb"
                  /\ h'.fp \in present' /\ disk'[h'.fp] = << >>]_vars
    /\ [][(h.fp # "None" /\ h.fp_mode = "rb")
          => disk'[h.fp] = disk[h.fp] /\ h.fp \in present']_vars
    /\ [][\A f \in FileNames :
             (f \in present /\ Len(disk[f]) > 0
              /\ (disk'[f] # disk[f] \/ f \notin present'))
             => h.fp = f /\ h.fp_mode = "wb" /\ pc = "rd_ack"]_vars

\* The image with data is open 'rb' after a file was open for receiving, and
\* read_disk has turned it down.
C31_Witness ==
    /\ h.fp = "img"
    /\ h.fp_mode = "rb"
    /\ "new" \in present
    /\ loc.op = "R"
    /\ pc = "done"


(***************************************************************************)
(* C32.  The step that ends the program (after 'X', an interrupt, or any   *)
(* other way out of the loop) with a file open closes the file and removes *)
(* it exactly when it holds no byte; it removes no other file and changes  *)
(* no file's data.  No step ever removes a file that holds data.           *)
(***************************************************************************)
C32_EmptyFileRemovedAtExit ==
    /\ [][(pc = "finally" /\ pc' = "exited")
          => /\ disk' = disk
             /\ IF h.fp # "None"
                THEN /\ h'.fp_mode = "closed"
                     /\ h.fp \in present
                     /\ h.fp \notin present' <=> Len(disk[h.fp]) = 0
                     /\ present \ {h.fp} = present' \ {h.fp}
                ELSE present' = present]_vars
    /\ [][\A f \in present : Len(disk[f]) > 0 => f \in present']_vars

\* An interrupt ended read_disk after it had written a track; the file is
\* kept at exit.
C32_Witness ==
    /\ pc = "exited"
    /\ h.fp = "new"
    /\ "new" \in present
    /\ Len(disk["new"]) > 0
    /\ \E k \in 1..Len(log) : log[k] = Ev("KeyboardInterrupt", << >>)
    /\ h.fp_mode = "closed"


C40_NoEmptyFileLeft ==
    pc = "exited" => \A f \in present \ InitialPresent : Len(disk[f]) > 0


(***************************************************************************)
(* C34.  The steps of read_disk that write 'R', call wait_char('R') or     *)
(* write the file are, in order: the write of 'R' that starts the          *)
(* transfer, then for each track 0, 1, ... the write of 'R', the           *)
(* wait_char('R') and the write of that track's buffer to the file.  When  *)
(* read_disk has gone through all tracks there were 1 + 3 * num_tracks of  *)
(* them, so num_tracks + 1 writes of 'R'.                                  *)
(***************************************************************************)
IsReadStep(e) ==
    \/ e = Ev("write", <<ORD.R>>)
    \/ e = Ev("wait", <<ORD.R>>)
    \/ e[1] = "fp.write"

IsMarker(e) == e = Ev("write", <<ORD.R>>)

C34_MarkerPerTrack ==
    loc.op = "R"
    => LET S == SelectSeq(log, IsReadStep)
       IN  /\ \A k \in 1..Len(S) :
                 IF k = 1 THEN S[k] = Ev("write", <<ORD.R>>)
                 ELSE CASE (k - 2) % 3 = 0 -> S[k] = Ev("write", <<ORD.R>>)
                        [] (k - 2) % 3 = 1 -> S[k] = Ev("wait", <<ORD.R>>)
                        [] OTHER -> /\ S[k][1] = "fp.write"
                                    /\ S[k][2][1] = (k - 2) \div 3
           /\ pc = "rd_close"
              => /\ Len(S) = 1 + 3 * num_tracks
                 /\ Len(SelectSeq(log, IsMarker)) = num_tracks + 1

\* read_disk has received and written every track.
C34_Witness ==
    /\ loc.op = "R"
    /\ pc = "rd_close"
    /\ Len(disk[h.fp]) = num_tracks * track_size


(***************************************************************************)
(* C35.  In save_loader_to_disk the byte written after 'V' is 0, whatever  *)
(* the volume of the session is.                                           *)
(***************************************************************************)
C35_SaveLoaderVolumeZero ==
    loc.op = "S"
    => \A j \in 1..Len(log) - 1 :
          (log[j] = Ev("write", <<ORD.V>>) /\ log[j + 1][1] = "write")
          => log[j + 1] = Ev("write", <<0>>)


(***************************************************************************)
(* C36.  write_loader leaves its flush for the upload only when no byte    *)
(* waits to be read; while it flushes it has written nothing and has not   *)
(* reported 'Already loaded?', whatever the bytes flushed.  The report     *)
(* 'Already loaded?' follows only a '?' read at a check of the upload,     *)
(* never a '?' that was flushed; and an upload during which no '?' is read *)
(* at a check sends all ldr_size bytes of the loader.                      *)
(***************************************************************************)
C36_FlushIsDiagnosticOnly ==
    /\ [][(pc = "wl_flush" /\ pc' = "wl_check")
          => inbuf = << >> /\ inbuf' = << >> /\ log' = log]_vars
    /\ [](loc.op = "L"
          => /\ pc = "wl_flush"
                => /\ SelectSeq(log, IsWrite) = << >>
                   /\ LastCall("Already loaded?") = 0
             /\ LastCall("Already loaded?") # 0
                => /\ log[LastCall("Already loaded?") - 1]
                         = Ev("read", <<QUESTION>>)
                   /\ LastCall("flushed") < LastCall("Already loaded?") - 1
             /\ (pc \in {"wl_pad", "wl_probe", "wl_done", "done"}
                 /\ LastCall("Sending") # 0
                 /\ FirstIndex(Ev("read", <<QUESTION>>)) = 0
                 /\ FirstIndex(Ev("SerialException", << >>)) = 0)
                => Len(SelectSeq(log, IsWrite)) >= ldr_size)

\* A '?' that waited before the upload was flushed, and the upload went
\* through all bytes of the loader.
C36_Witness ==
    /\ loc.op = "L"
    /\ pc = "wl_pad"
    /\ \E k \in 1..Len(log) : log[k] = Ev("flushed", <<QUESTION>>)
    /\ Len(SelectSeq(log, IsWrite)) = ldr_size


(***************************************************************************)
(* C38.  When is_h89ldr2_alive has written its 'A', no byte received       *)
(* before that write is still unread, so that the byte it reads next (the  *)
(* first unread one) is an answer to this probe.                           *)
(***************************************************************************)
C38_ProbeReadsOwnAnswer ==
    [][(pc = "alive_write" /\ pc' = "alive_read") => inbuf' = << >>]_vars

(***************************************************************************)
(* C39.  When get_disk_volume has returned False to the first read_disk of *)
(* a session, the volume of the session is what it was at the call: the    *)
(* volume the session began with.                                          *)
(***************************************************************************)
C39_FailureKeepsVolume ==
    (loc.op = "R" /\ pc = "rd_gdv" /\ ~loc.retval) => h.vol = InitSession.vol


(***************************************************************************)
(* C37.  When load_second_stage_bootloader has written its closing 'L',    *)
(* its writes were: 'L', then every byte of the file once, from the last   *)
(* byte down to the byte of index 0, then 'L'.                             *)
(***************************************************************************)
C37_SecondStageSendsEveryByte ==
    pc = "ls_result"
    => LET c == loc.buffer
       IN  SelectSeq(log, IsWrite)
              = <<Ev("write", <<ORD.L>>)>>
                \o [k \in 1..Len(c) |-> Ev("write", <<c[Len(c) + 1 - k]>>)]
                \o <<Ev("write", <<ORD.L>>)>>

====
